---- MODULE Spec2Model ----
(***************************************************************************)
(* Request-admission and cost-governance core of claude-code-hub:          *)
(* the in-memory store (sorted sets + TTL map), the rolling-window and      *)
(* session scripts built on it, and the RateLimitService facade.           *)
(*                                                                         *)
(* Time is Date.now() in milliseconds (variable clock).  Costs are small   *)
(* naturals standing for the positive decimals of the program; floating    *)
(* point rounding of sums is not modelled.                                 *)
(***************************************************************************)
EXTENDS Integers, Sequences, FiniteSets, TLC

VARIABLES
    clock,      \* Date.now(), ms
    ticks,      \* number of clock advances so far (bounds the run)
    zsetData,   \* InMemoryZSet.data : key -> sequence of [member, score], Map insertion order
    tracked,    \* ghost: every Track issued so far, as [key, t, cost], in call order;
                \* SelectSpec: every round-robin selection that returned, in order
    last,       \* ghost: the call that completed last, with what it returned
    lastGet,    \* ghost: key -> the most recent Get since the last Track on that key
    wkey,       \* WindowSpec: the window key the run is about
    nTrack,     \* number of Track calls (SelectSpec: selections) issued so far (bounds the run)
    proc,       \* per concurrent caller: where its call stands, its arguments and locals
    rwMutex,    \* holder of the rolling-window module's mutex, or NoHolder
    stMutex,    \* holder of the session-script module's mutex, or NoHolder
    status,     \* InMemoryStore.status
    mapData,    \* InMemoryMap.data : key -> [value, hasExpiry, expiry]
    cfg,        \* what the administration has configured: the limits of the entity under
                \* check; SelectSpec: the providers
    endpoints,  \* table provider_endpoints: rows in insertion order
    roundRobinIndex, \* EndpointSelector.roundRobinIndex : providerId -> cursor
    writes      \* ghost: number of durable writes to provider_endpoints so far

epVars == <<endpoints, roundRobinIndex, writes>>

vars == <<clock, ticks, zsetData, tracked, last, lastGet, wkey, nTrack,
          proc, rwMutex, stMutex, status, mapData, cfg, epVars>>

\* No provider has endpoints and nothing has been selected.
NoEndpoints ==
    /\ endpoints = <<>>
    /\ roundRobinIndex = << >>
    /\ writes = 0

\* ------------------------------------------------------------------ bounds
MaxTicks == 3
MaxCost == 1
MaxTracks == 2
MaxLimit == 2

\* ------------------------------------------------------- program constants
window5h == 18000000
window24h == 86400000
NEG_INFINITY == -1
SESSION_TTL == 300000

\* ---------------------------------------------------------------- helpers
Max(a, b) == IF a >= b THEN a ELSE b
Min(a, b) == IF a <= b THEN a ELSE b

RECURSIVE SeqSum(_)
SeqSum(s) == IF s = <<>> THEN 0 ELSE Head(s) + SeqSum(Tail(s))

\* ============================================================ InMemoryZSet
\* A sorted set is the JS Map member -> score of the source, kept as the
\* sequence of its entries in insertion order; an absent key and an empty
\* Map are the same thing to every operation (zadd never leaves a Map empty,
\* zremrangebyscore and zrem delete a Map they emptied).

ZGet(data, key) == IF key \in DOMAIN data THEN data[key] ELSE <<>>

ZPut(data, key, z) ==
    IF z = <<>>
    THEN [k \in DOMAIN data \ {key} |-> data[k]]
    ELSE [k \in DOMAIN data \cup {key} |-> IF k = key THEN z ELSE data[k]]

zadd(z, score, member) ==
    IF \E i \in 1..Len(z) : z[i].member = member
    THEN [i \in 1..Len(z) |->
            IF z[i].member = member THEN [member |-> member, score |-> score] ELSE z[i]]
    ELSE Append(z, [member |-> member, score |-> score])

InRange(score, min, max) ==
    /\ (min = NEG_INFINITY \/ score >= min)
    /\ score <= max

zremrangebyscore(z, min, max) ==
    SelectSeq(z, LAMBDA e : ~InRange(e.score, min, max))

zcard(z) == Len(z)

\* zscore: the score, or null (isNull = TRUE).
zscore(z, member) ==
    IF \E i \in 1..Len(z) : z[i].member = member
    THEN [isNull |-> FALSE,
          score |-> (CHOOSE e \in {z[i] : i \in 1..Len(z)} : e.member = member).score]
    ELSE [isNull |-> TRUE, score |-> 0]

\* Array.prototype.sort with (a, b) => a.score - b.score is stable: entries of
\* equal score keep their insertion order.
RECURSIVE InsertByScore(_, _)
InsertByScore(sorted, e) ==
    IF sorted = <<>> THEN <<e>>
    ELSE IF Head(sorted).score <= e.score
         THEN <<Head(sorted)>> \o InsertByScore(Tail(sorted), e)
         ELSE <<e>> \o sorted

RECURSIVE SortByScore(_)
SortByScore(z) ==
    IF z = <<>> THEN <<>>
    ELSE InsertByScore(SortByScore(SubSeq(z, 1, Len(z) - 1)), z[Len(z)])

zrange(z, start, stop) ==
    LET entries == SortByScore(z)
        len == Len(entries)
        startIdx == IF start < 0 THEN Max(0, len + start) ELSE start
        stopIdx == IF stop < 0 THEN len + stop ELSE stop
        endIdx == Min(stopIdx + 1, len)
        slice == SubSeq(entries, startIdx + 1, endIdx)
    IN  [i \in 1..Len(slice) |-> slice[i].member]

\* ================================================== rolling-window scripts
\* A member `${nowMs}:${cost}` is the pair <<nowMs, cost>>: two member
\* strings are equal exactly when both numbers are.
CostMember(nowMs, cost) == <<nowMs, cost>>

parseCostFromMember(member) == member[2]

calculateTotalCost(z) ==
    LET records == zrange(z, 0, -1)
    IN  SeqSum([i \in 1..Len(records) |-> parseCostFromMember(records[i])])

\* The body run under the module mutex, on the sorted set of one key:
\* the set after the call and the total the call returns.
trackCost5hRollingWindow(z, cost, nowMs, windowMs) ==
    LET trimmed == zremrangebyscore(z, NEG_INFINITY, nowMs - windowMs)
        added == zadd(trimmed, nowMs, CostMember(nowMs, cost))
    IN  [z |-> added, total |-> calculateTotalCost(added)]

\* Mutant: the total is summed before the expired records are removed.
getCost5hRollingWindow_SumBeforeTrim(z, nowMs, windowMs) ==
    LET trimmed == zremrangebyscore(z, NEG_INFINITY, nowMs - windowMs)
    IN  [z |-> trimmed, total |-> calculateTotalCost(z)]

getCost5hRollingWindow(z, nowMs, windowMs) ==
    LET trimmed == zremrangebyscore(z, NEG_INFINITY, nowMs - windowMs)
    IN  [z |-> trimmed, total |-> calculateTotalCost(trimmed)]

trackCostDailyRollingWindow(z, cost, nowMs, windowMs) ==
    LET trimmed == zremrangebyscore(z, NEG_INFINITY, nowMs - windowMs)
        added == zadd(trimmed, nowMs, CostMember(nowMs, cost))
    IN  [z |-> added, total |-> calculateTotalCost(added)]

getCostDailyRollingWindow(z, nowMs, windowMs) ==
    LET trimmed == zremrangebyscore(z, NEG_INFINITY, nowMs - windowMs)
    IN  [z |-> trimmed, total |-> calculateTotalCost(trimmed)]

\* ------------------------------------------------------------ cache keys
\* `${type}:${id}:cost_<...>` is the triple <<type, id, name>>, name the
\* sequence of the pieces the template concatenates after "cost_".
Key5hRolling(type, id) == <<type, id, <<"cost_5h_rolling">>>>
KeyDailyRolling(type, id) == <<type, id, <<"cost_daily_rolling">>>>

\* ================================================================ WindowSpec
\* The window scripts called one after another on one key (the 5h key of an
\* entity, or its daily rolling key), with the clock advancing between calls.
WindowKeys == {Key5hRolling("key", 1), KeyDailyRolling("key", 1)}

IsDailyKey(key) == key[3] = <<"cost_daily_rolling">>
WindowOf(key) == IF IsDailyKey(key) THEN window24h ELSE window5h

TrackScript(key, z, cost, nowMs) ==
    IF IsDailyKey(key)
    THEN trackCostDailyRollingWindow(z, cost, nowMs, window24h)
    ELSE trackCost5hRollingWindow(z, cost, nowMs, window5h)

GetScript(key, z, nowMs) ==
    IF IsDailyKey(key)
    THEN getCostDailyRollingWindow(z, nowMs, window24h)
    ELSE getCost5hRollingWindow(z, nowMs, window5h)

NoCall == [op |-> "none"]
NoHolder == 0
NoGet == [seen |-> FALSE, now |-> 0, total |-> 0]
NoKey == <<"none", 0, <<>>>>
NoConfig == [type |-> "none"]

Idle ==
    /\ clock = 0
    /\ ticks = 0
    /\ zsetData = << >>
    /\ tracked = <<>>
    /\ last = NoCall
    /\ lastGet = [k \in WindowKeys |-> NoGet]
    /\ nTrack = 0
    /\ proc = << >>
    /\ rwMutex = NoHolder
    /\ stMutex = NoHolder
    /\ NoEndpoints
    /\ status = "ready"
    /\ mapData = << >>
    /\ cfg = NoConfig

WindowInit ==
    /\ Idle
    /\ wkey \in WindowKeys

\* The clock moves by one millisecond or by one millisecond less than the
\* window, so that a run meets now - window exactly and one past it.
WindowTick ==
    /\ ticks < MaxTicks
    /\ \E d \in {1, WindowOf(wkey) - 1} : clock' = clock + d
    /\ ticks' = ticks + 1
    /\ UNCHANGED <<zsetData, tracked, last, lastGet, wkey, nTrack, proc, rwMutex, stMutex, status, mapData, cfg, epVars>>

WindowTrack ==
    \E cost \in 0..MaxCost :
        LET z == ZGet(zsetData, wkey)
            before == GetScript(wkey, z, clock)
            r == TrackScript(wkey, z, cost, clock)
        IN  /\ nTrack < MaxTracks
            /\ nTrack' = nTrack + 1
            /\ zsetData' = ZPut(zsetData, wkey, r.z)
            /\ tracked' = Append(tracked, [key |-> wkey, t |-> clock, cost |-> cost])
            /\ last' = [op |-> "track", key |-> wkey, now |-> clock, cost |-> cost,
                        total |-> r.total, before |-> before.total]
            /\ UNCHANGED <<clock, ticks, lastGet, wkey, proc, rwMutex, stMutex, status, mapData, cfg, epVars>>

WindowGet ==
    LET r == GetScript(wkey, ZGet(zsetData, wkey), clock)
    IN  /\ zsetData' = ZPut(zsetData, wkey, r.z)
        /\ last' = [op |-> "get", key |-> wkey, now |-> clock, total |-> r.total]
        /\ UNCHANGED <<clock, ticks, tracked, lastGet, wkey, nTrack, proc, rwMutex, stMutex, status, mapData, cfg, epVars>>

WindowNext == WindowTick \/ WindowTrack \/ WindowGet

WindowSpec == WindowInit /\ [][WindowNext]_vars

\* ---------------------------------------------------------------- C3, C4
\* The costs of the events tracked on key with lo <= t <= hi.
RECURSIVE SumTracked(_, _, _, _)
SumTracked(evs, key, lo, hi) ==
    IF evs = <<>> THEN 0
    ELSE (IF Head(evs).key = key /\ lo <= Head(evs).t /\ Head(evs).t <= hi
          THEN Head(evs).cost ELSE 0) + SumTracked(Tail(evs), key, lo, hi)

DistinctTimes(evs, key) ==
    \A i, j \in 1..Len(evs) :
        (i # j /\ evs[i].key = key /\ evs[j].key = key) => evs[i].t # evs[j].t

\* C3: for cost events tracked on one key at distinct timestamps, a Get at
\* time now returns the sum of the costs of exactly the events with
\* now - window <= t <= now (the event at exactly now - window included).
C3_GetSumsInclusiveWindow ==
    (last.op = "get" /\ DistinctTimes(tracked, last.key)) =>
        last.total = SumTracked(tracked, last.key, last.now - WindowOf(last.key), last.now)

\* C4: every Track returns the in-window total as it was before the call
\* plus the cost it tracks.
C4_TrackRaisesTotalByCost ==
    last.op = "track" => last.total = last.before + last.cost

\* =================================================================== GetSpec
\* Track and Get calls on the 5h key and the daily rolling key of one
\* entity, one call at a time, remembering per key the last Get made since
\* the last Track on that key.
GetInit ==
    /\ Idle
    /\ wkey = NoKey

GetTick ==
    /\ ticks < MaxTicks
    /\ \E d \in {1, window24h - 1} : clock' = clock + d
    /\ ticks' = ticks + 1
    /\ UNCHANGED <<zsetData, tracked, last, lastGet, wkey, nTrack, proc, rwMutex, stMutex, status, mapData, cfg, epVars>>

GetTrack ==
    \E key \in WindowKeys, cost \in 1..MaxCost :
        LET r == TrackScript(key, ZGet(zsetData, key), cost, clock)
        IN  /\ nTrack < MaxTracks
            /\ nTrack' = nTrack + 1
            /\ zsetData' = ZPut(zsetData, key, r.z)
            /\ last' = [op |-> "track", key |-> key, now |-> clock, total |-> r.total]
            /\ lastGet' = [lastGet EXCEPT ![key] = NoGet]
            /\ UNCHANGED <<clock, ticks, tracked, wkey, proc, rwMutex, stMutex, status, mapData, cfg, epVars>>

GetGet ==
    \E key \in WindowKeys :
        LET r == GetScript(key, ZGet(zsetData, key), clock)
        IN  /\ zsetData' = ZPut(zsetData, key, r.z)
            /\ last' = [op |-> "get", key |-> key, now |-> clock, total |-> r.total,
                        prev |-> lastGet[key]]
            /\ lastGet' = [lastGet EXCEPT ![key] = [seen |-> TRUE, now |-> clock, total |-> r.total]]
            /\ UNCHANGED <<clock, ticks, tracked, wkey, nTrack, proc, rwMutex, stMutex, status, mapData, cfg, epVars>>

GetNext == GetTick \/ GetTrack \/ GetGet

GetSpec == GetInit /\ [][GetNext]_vars

\* -------------------------------------------------------------------- C6
\* C6 as stated: a Get called twice on a key with no Track on that key in
\* between returns the same total both times.
C6_GetTwiceSameTotal ==
    (last.op = "get" /\ last.prev.seen) => last.total = last.prev.total

\* C6 amended: a Get called twice on a key with the same now and no Track on
\* that key in between returns the same total both times.
C6_GetTwiceSameNowSameTotal ==
    (last.op = "get" /\ last.prev.seen /\ last.prev.now = last.now) =>
        last.total = last.prev.total

\* Two Gets at the same now on a key that has held an event which has left
\* the window and holds one that has not.
C6_Witness ==
    /\ last.op = "get"
    /\ last.prev.seen
    /\ last.prev.now = last.now
    /\ last.total > 0
    /\ nTrack >= 2
    /\ Len(ZGet(zsetData, last.key)) = 1

\* ================================================================ ScriptSpec
\* Concurrent callers of the window scripts.  Every await of the source is
\* a point where another caller may run: the wait for the module mutex, and
\* each store call inside the critical section.
ScriptProcs == {1, 2, 3}

\* All callers work on the same key.
ScriptKeys == {Key5hRolling("key", 1)}

\* Mutant: the critical section is entered without waiting for the mutex.
RollingMutexFree_NoWait(holder) == TRUE

\* mutex.runExclusive lets the callback start only when nobody holds the mutex.
RollingMutexFree(holder) == holder = NoHolder

\* Callers are interchangeable: caller p issues its call once every caller
\* below p has issued its own.
ScriptTurn(p) == \A q \in ScriptProcs : q < p => proc[q].pc # "idle"

ScriptIdle == [pc |-> "idle", op |-> "none", key |-> NoKey, cost |-> 0, now |-> 0, total |-> 0]

ScriptInit ==
    /\ clock = 0
    /\ ticks = 0
    /\ zsetData = << >>
    /\ tracked = <<>>
    /\ last = NoCall
    /\ lastGet = [k \in WindowKeys |-> NoGet]
    /\ nTrack = 0
    /\ wkey = NoKey
    /\ proc = [p \in ScriptProcs |-> ScriptIdle]
    /\ rwMutex = NoHolder
    /\ stMutex = NoHolder
    /\ NoEndpoints
    /\ status = "ready"
    /\ mapData = << >>
    /\ cfg = NoConfig

ScriptFrame == UNCHANGED <<tracked, last, lastGet, wkey, nTrack, stMutex, status, mapData, cfg, epVars>>

ScriptTick ==
    /\ ticks < MaxTicks
    /\ \E d \in {1, window5h - 1} : clock' = clock + d
    /\ ticks' = ticks + 1
    /\ UNCHANGED <<zsetData, proc, rwMutex>>
    /\ ScriptFrame

\* The caller evaluates its arguments (Date.now() among them) and calls the script.
ScriptCallTrack(p) ==
    /\ proc[p].pc = "idle"
    /\ ScriptTurn(p)
    /\ \E key \in ScriptKeys, cost \in 1..MaxCost :
         proc' = [proc EXCEPT ![p] = [pc |-> "acquire", op |-> "track", key |-> key,
                                       cost |-> cost, now |-> clock, total |-> 0]]
    /\ UNCHANGED <<clock, ticks, zsetData, rwMutex>>
    /\ ScriptFrame

ScriptCallGet(p) ==
    /\ proc[p].pc = "idle"
    /\ ScriptTurn(p)
    /\ \E key \in ScriptKeys :
         proc' = [proc EXCEPT ![p] = [pc |-> "acquire", op |-> "get", key |-> key,
                                       cost |-> 0, now |-> clock, total |-> 0]]
    /\ UNCHANGED <<clock, ticks, zsetData, rwMutex>>
    /\ ScriptFrame

ScriptAcquire(p) ==
    /\ proc[p].pc = "acquire"
    /\ RollingMutexFree(rwMutex)
    /\ rwMutex' = p
    /\ proc' = [proc EXCEPT ![p].pc = "trim"]
    /\ UNCHANGED <<clock, ticks, zsetData>>
    /\ ScriptFrame

\* await store.zremrangebyscore(key, -Infinity, nowMs - windowMs)
ScriptTrim(p) ==
    LET c == proc[p]
        z == ZGet(zsetData, c.key)
    IN  /\ c.pc = "trim"
        /\ zsetData' = ZPut(zsetData, c.key,
                            zremrangebyscore(z, NEG_INFINITY, c.now - WindowOf(c.key)))
        /\ proc' = [proc EXCEPT ![p].pc = IF c.op = "track" THEN "add" ELSE "sum"]
        /\ UNCHANGED <<clock, ticks, rwMutex>>
        /\ ScriptFrame

\* await store.zadd(key, nowMs, member)
ScriptAdd(p) ==
    LET c == proc[p]
        z == ZGet(zsetData, c.key)
    IN  /\ c.pc = "add"
        /\ zsetData' = ZPut(zsetData, c.key, zadd(z, c.now, CostMember(c.now, c.cost)))
        /\ proc' = [proc EXCEPT ![p].pc = "sum"]
        /\ UNCHANGED <<clock, ticks, rwMutex>>
        /\ ScriptFrame

\* await calculateTotalCost(store, key); the callback returns and the mutex is released.
ScriptSum(p) ==
    LET c == proc[p]
    IN  /\ c.pc = "sum"
        /\ proc' = [proc EXCEPT ![p].pc = "done",
                                ![p].total = calculateTotalCost(ZGet(zsetData, c.key))]
        /\ rwMutex' = NoHolder
        /\ UNCHANGED <<clock, ticks, zsetData>>
        /\ ScriptFrame

ScriptNext ==
    \/ ScriptTick
    \/ \E p \in ScriptProcs :
         \/ ScriptCallTrack(p)
         \/ ScriptCallGet(p)
         \/ ScriptAcquire(p)
         \/ ScriptTrim(p)
         \/ ScriptAdd(p)
         \/ ScriptSum(p)

ScriptSpec == ScriptInit /\ [][ScriptNext]_vars

\* -------------------------------------------------------------------- C5
\* The calls of order run one after another, each as a whole, from data:
\* the store they leave and the total each returns.
RECURSIVE Replay(_, _, _)
Replay(order, data, totals) ==
    IF order = <<>> THEN [data |-> data, totals |-> totals]
    ELSE LET p == Head(order)
             c == proc[p]
             z == ZGet(data, c.key)
             r == IF c.op = "track" THEN TrackScript(c.key, z, c.cost, c.now)
                                    ELSE GetScript(c.key, z, c.now)
         IN  Replay(Tail(order), ZPut(data, c.key, r.z), totals @@ (p :> r.total))

Orders(S) ==
    {o \in [1..Cardinality(S) -> S] : \A i, j \in 1..Cardinality(S) : o[i] = o[j] => i = j}

ScriptDone == {p \in ScriptProcs : proc[p].pc = "done"}
ScriptQuiet == \A p \in ScriptProcs : proc[p].pc \in {"idle", "done"}

\* C5: whenever no window-script call is under way, the totals the
\* completed calls returned and the sorted sets they left are those of the
\* calls run one at a time in some order.
C5_ScriptCallsSerializable ==
    ScriptQuiet =>
        \E o \in Orders(ScriptDone) :
            LET r == Replay(o, << >>, << >>)
            IN  /\ r.data = zsetData
                /\ \A p \in ScriptDone : r.totals[p] = proc[p].total

\* Three calls on one key have completed, two of them Tracks, one of which
\* removed an event that had left its window.
C5_Witness ==
    /\ ScriptDone = ScriptProcs
    /\ Cardinality({p \in ScriptProcs : proc[p].op = "track"}) = 2
    /\ proc[1].op = "get"
    /\ proc[1].total > 0
    /\ Len(ZGet(zsetData, Key5hRolling("key", 1))) = 1

\* =============================================================== SessionSpec
\* limit + 1 concurrent requests, each with a session id of its own, ask
\* RateLimitService.checkAndTrackProviderSession for admission to the same
\* provider, whose session set starts empty.  The requests are issued within
\* a few milliseconds of each other.
ProviderSessionsKey(providerId) == <<"provider", providerId, <<"active_sessions">>>>

\* Mutant: the script body is entered without waiting for the mutex.
SessionMutexFree_NoWait(holder) == TRUE

\* mutex.runExclusive of the session-script module's mutex.
SessionMutexFree(holder) == holder = NoHolder

\* Mutant: a session already in the set is counted against the limit too.
LimitReached_CountsTracked(limit, isTracked, currentCount) ==
    limit > 0 /\ currentCount >= limit

\* 4. Check limit (exclude already tracked sessions)
LimitReached(limit, isTracked, currentCount) ==
    limit > 0 /\ ~isTracked /\ currentCount >= limit

NoResult == [allowed |-> FALSE, count |-> -1, tracked |-> FALSE]

SessionIdle(limit) ==
    [pc |-> "idle", providerId |-> 1, sessionId |-> 0, limit |-> limit, now |-> 0,
     isTracked |-> FALSE, res |-> NoResult]

SessionInit ==
    /\ clock = 0
    /\ ticks = 0
    /\ zsetData = << >>
    /\ tracked = <<>>
    /\ last = NoCall
    /\ lastGet = [k \in WindowKeys |-> NoGet]
    /\ nTrack = 0
    /\ wkey = NoKey
    /\ \E n \in 1..MaxLimit : proc = [p \in 1..(n + 1) |-> SessionIdle(n)]
    /\ rwMutex = NoHolder
    /\ stMutex = NoHolder
    /\ NoEndpoints
    /\ status = "ready"
    /\ mapData = << >>
    /\ cfg = NoConfig

SessionFrame == UNCHANGED <<tracked, last, lastGet, wkey, nTrack, rwMutex, status, mapData, cfg, epVars>>

SessionTick ==
    /\ ticks < MaxTicks
    /\ clock' = clock + 1
    /\ ticks' = ticks + 1
    /\ UNCHANGED <<zsetData, proc, stMutex>>
    /\ SessionFrame

\* checkAndTrackProviderSession up to the call of the script: the limit and
\* readiness guards, then key and now.
SessionCall(p) ==
    LET c == proc[p]
    IN  /\ c.pc = "idle"
        /\ \A q \in DOMAIN proc : q < p => proc[q].pc # "idle"
        /\ proc' = [proc EXCEPT ![p] =
             IF c.limit <= 0 \/ status # "ready"
             THEN [c EXCEPT !.pc = "done", !.sessionId = p,
                            !.res = [allowed |-> TRUE, count |-> 0, tracked |-> FALSE]]
             ELSE [c EXCEPT !.pc = "acquire", !.sessionId = p, !.now = clock]]
        /\ UNCHANGED <<clock, ticks, zsetData, stMutex>>
        /\ SessionFrame

SessionAcquire(p) ==
    /\ proc[p].pc = "acquire"
    /\ SessionMutexFree(stMutex)
    /\ stMutex' = p
    /\ proc' = [proc EXCEPT ![p].pc = "trim"]
    /\ UNCHANGED <<clock, ticks, zsetData>>
    /\ SessionFrame

\* 1. await store.zremrangebyscore(providerKey, -Infinity, fiveMinutesAgo)
SessionTrim(p) ==
    LET c == proc[p]
        key == ProviderSessionsKey(c.providerId)
    IN  /\ c.pc = "trim"
        /\ zsetData' = ZPut(zsetData, key,
                            zremrangebyscore(ZGet(zsetData, key), NEG_INFINITY, c.now - SESSION_TTL))
        /\ proc' = [proc EXCEPT ![p].pc = "score"]
        /\ UNCHANGED <<clock, ticks, stMutex>>
        /\ SessionFrame

\* 2. await store.zscore(providerKey, sessionId)
SessionScore(p) ==
    LET c == proc[p]
        key == ProviderSessionsKey(c.providerId)
    IN  /\ c.pc = "score"
        /\ proc' = [proc EXCEPT ![p].pc = "card",
                                ![p].isTracked = ~zscore(ZGet(zsetData, key), c.sessionId).isNull]
        /\ UNCHANGED <<clock, ticks, zsetData, stMutex>>
        /\ SessionFrame

\* 3. await store.zcard(providerKey), 4. the limit check: a rejected call
\* returns here and releases the mutex.
SessionCard(p) ==
    LET c == proc[p]
        key == ProviderSessionsKey(c.providerId)
        currentCount == zcard(ZGet(zsetData, key))
    IN  /\ c.pc = "card"
        /\ IF LimitReached(c.limit, c.isTracked, currentCount)
           THEN /\ proc' = [proc EXCEPT ![p].pc = "done",
                              ![p].res = [allowed |-> FALSE, count |-> currentCount,
                                          tracked |-> FALSE]]
                /\ stMutex' = NoHolder
           ELSE /\ proc' = [proc EXCEPT ![p].pc = "add",
                              ![p].res = [allowed |-> TRUE,
                                          count |-> IF c.isTracked THEN currentCount
                                                    ELSE currentCount + 1,
                                          tracked |-> ~c.isTracked]]
                /\ stMutex' = stMutex
        /\ UNCHANGED <<clock, ticks, zsetData>>
        /\ SessionFrame

\* 5. await store.zadd(providerKey, now, sessionId), 6. return; the mutex is released.
SessionAdd(p) ==
    LET c == proc[p]
        key == ProviderSessionsKey(c.providerId)
    IN  /\ c.pc = "add"
        /\ zsetData' = ZPut(zsetData, key, zadd(ZGet(zsetData, key), c.now, c.sessionId))
        /\ proc' = [proc EXCEPT ![p].pc = "done"]
        /\ stMutex' = NoHolder
        /\ UNCHANGED <<clock, ticks>>
        /\ SessionFrame

SessionNext ==
    \/ SessionTick
    \/ \E p \in DOMAIN proc :
         \/ SessionCall(p)
         \/ SessionAcquire(p)
         \/ SessionTrim(p)
         \/ SessionScore(p)
         \/ SessionCard(p)
         \/ SessionAdd(p)

SessionSpec == SessionInit /\ [][SessionNext]_vars

\* -------------------------------------------------------------------- C1
SessionAllDone == \A p \in DOMAIN proc : proc[p].pc = "done"
SessionAdmitted == {p \in DOMAIN proc : proc[p].pc = "done" /\ proc[p].res.allowed}
SessionRejected == {p \in DOMAIN proc : proc[p].pc = "done" /\ ~proc[p].res.allowed}
SessionLimit == proc[1].limit

\* C1: of limit + 1 concurrent calls with distinct session ids on an empty
\* provider set, never more than limit are admitted, and once all have
\* returned exactly limit were admitted, each with tracked = true, and
\* exactly one was rejected.
C1_AdmitsExactlyLimit ==
    /\ Cardinality(SessionAdmitted) <= SessionLimit
    /\ SessionAllDone =>
         /\ Cardinality(SessionAdmitted) = SessionLimit
         /\ \A p \in SessionAdmitted : proc[p].res.tracked
         /\ Cardinality(SessionRejected) = 1

\* All calls have returned, under the largest limit, and the one rejected
\* is not the one issued last.
C1_Witness ==
    /\ SessionAllDone
    /\ SessionLimit = MaxLimit
    /\ Cardinality(SessionAdmitted) = MaxLimit
    /\ \E p \in SessionRejected : p < MaxLimit + 1
    /\ zcard(ZGet(zsetData, ProviderSessionsKey(1))) = MaxLimit

\* ============================================================== InMemoryMap
\* An entry of the TTL map: the stored string, here the number it spells
\* (the service stores String(n) and reads it back with parseFloat), and
\* the optional expiry in ms.
MEntry(value, hasExpiry, expiry) == [value |-> value, hasExpiry |-> hasExpiry, expiry |-> expiry]

MDel(data, key) == [k \in DOMAIN data \ {key} |-> data[k]]

MSet(data, key, entry) ==
    [k \in DOMAIN data \cup {key} |-> IF k = key THEN entry ELSE data[k]]

\* Mutant: an entry lives through the instant of its expiry.
isExpired_Strict(entry, now) == entry.hasExpiry /\ entry.expiry < now

isExpired(entry, now) == entry.hasExpiry /\ entry.expiry <= now

\* get: the value, or null (found = FALSE); an expired entry is deleted on the way.
get(data, key, now) ==
    IF key \notin DOMAIN data THEN [data |-> data, found |-> FALSE, value |-> 0]
    ELSE IF isExpired(data[key], now)
         THEN [data |-> MDel(data, key), found |-> FALSE, value |-> 0]
         ELSE [data |-> data, found |-> TRUE, value |-> data[key].value]

setex(data, key, seconds, value, now) ==
    MSet(data, key, MEntry(value, TRUE, now + seconds * 1000))

\* exists looks at the TTL map only: the sorted sets live in another Map.
exists(data, key, now) ==
    IF key \in DOMAIN data /\ ~isExpired(data[key], now) THEN 1 ELSE 0

incrbyfloat(data, key, increment, now) ==
    LET live == key \in DOMAIN data /\ ~isExpired(data[key], now)
        current == IF live THEN data[key].value ELSE 0
    IN  MSet(data, key, MEntry(current + increment,
                               live /\ data[key].hasExpiry,
                               IF live THEN data[key].expiry ELSE 0))

expire(data, key, seconds, now) ==
    IF key \notin DOMAIN data THEN data
    ELSE IF isExpired(data[key], now) THEN MDel(data, key)
         ELSE MSet(data, key, MEntry(data[key].value, TRUE, now + seconds * 1000))

\* ========================================================= RateLimitService
Undefined == <<>>
UndefinedMode == "undefined"
Midnight == <<"0", "0", ":", "0", "0">>

\* time-utils.normalizeResetTime: an "HH:mm" string is returned as it is,
\* a missing one becomes "00:00".  Strings are sequences of characters.
normalizeResetTime(resetTime) == IF resetTime = Undefined THEN Midnight ELSE resetTime

\* String.prototype.replace(ch, ""): the first occurrence of ch is removed.
RECURSIVE RemoveFirst(_, _)
RemoveFirst(s, ch) ==
    IF s = <<>> THEN <<>>
    ELSE IF Head(s) = ch THEN Tail(s)
         ELSE <<Head(s)>> \o RemoveFirst(Tail(s), ch)

\* Mutant: the suffix keeps the colon.
resolveDailyReset_KeepColon(resetTime) ==
    LET normalized == normalizeResetTime(resetTime)
    IN  [normalized |-> normalized, suffix |-> normalized]

resolveDailyReset(resetTime) ==
    LET normalized == normalizeResetTime(resetTime)
    IN  [normalized |-> normalized, suffix |-> RemoveFirst(normalized, ":")]

\* time-utils.getTTLForPeriodWithMode / getTTLForPeriod, in seconds: 24 hours
\* for the rolling daily window, otherwise the time left to the next reset,
\* taken to be a day away.
SecondsToReset == 86400
getTTLForPeriodWithMode(period, resetTime, mode) ==
    IF period = "daily" /\ mode = "rolling" THEN 86400 ELSE SecondsToReset
getTTLForPeriod(period) == SecondsToReset

\* Mutant: the daily rolling window is tracked whatever the reset mode.
DailyRollingTracked_Always(mode) == TRUE

DailyRollingTracked(mode) == mode = "rolling"

\* `${type}:${id}:cost_daily_${suffix}`, `...:cost_weekly`, `...:cost_monthly`
\* as trackCost spells them.
TrackDailyFixedKey(type, id, suffix) == <<type, id, <<"cost_", "daily", "_">> \o suffix>>
TrackWeeklyKey(type, id) == <<type, id, <<"cost_", "weekly">>>>
TrackMonthlyKey(type, id) == <<type, id, <<"cost_", "monthly">>>>

\* pipeline.exec(): the queued incrbyfloat / expire pairs, one after another.
RECURSIVE PipelineExec(_, _, _, _)
PipelineExec(data, cmds, cost, now) ==
    IF cmds = <<>> THEN data
    ELSE LET c == Head(cmds)
             incremented == incrbyfloat(data, c.key, cost, now)
         IN  PipelineExec(expire(incremented, c.key, c.ttl, now), Tail(cmds), cost, now)

\* trackCost: the stores after the call and the keys it wrote, per entity.
trackCost(z, mp, keyId, providerId, cost, options, now) ==
    IF cost <= 0 THEN [z |-> z, m |-> mp, written |-> [key |-> {}, provider |-> {}]]
    ELSE
    LET keyDailyReset == resolveDailyReset(options.keyResetTime)
        providerDailyReset == resolveDailyReset(options.providerResetTime)
        keyDailyMode == IF options.keyResetMode = UndefinedMode THEN "fixed"
                        ELSE options.keyResetMode
        providerDailyMode == IF options.providerResetMode = UndefinedMode THEN "fixed"
                             ELSE options.providerResetMode
        ttlDailyKey == getTTLForPeriodWithMode("daily", keyDailyReset.normalized, keyDailyMode)
        ttlDailyProvider ==
            IF keyDailyReset.normalized = providerDailyReset.normalized
               /\ keyDailyMode = providerDailyMode
            THEN ttlDailyKey
            ELSE getTTLForPeriodWithMode("daily", providerDailyReset.normalized, providerDailyMode)
        ttlWeekly == getTTLForPeriod("weekly")
        ttlMonthly == getTTLForPeriod("monthly")
        k5 == Key5hRolling("key", keyId)
        p5 == Key5hRolling("provider", providerId)
        kd == KeyDailyRolling("key", keyId)
        pd == KeyDailyRolling("provider", providerId)
        z1 == ZPut(z, k5, trackCost5hRollingWindow(ZGet(z, k5), cost, now, window5h).z)
        z2 == ZPut(z1, p5, trackCost5hRollingWindow(ZGet(z1, p5), cost, now, window5h).z)
        z3 == IF DailyRollingTracked(keyDailyMode)
              THEN ZPut(z2, kd, trackCostDailyRollingWindow(ZGet(z2, kd), cost, now, window24h).z)
              ELSE z2
        z4 == IF DailyRollingTracked(providerDailyMode)
              THEN ZPut(z3, pd, trackCostDailyRollingWindow(ZGet(z3, pd), cost, now, window24h).z)
              ELSE z3
        keyCmds ==
            (IF keyDailyMode = "fixed"
             THEN <<[key |-> TrackDailyFixedKey("key", keyId, keyDailyReset.suffix),
                     ttl |-> ttlDailyKey]>>
             ELSE <<>>)
            \o <<[key |-> TrackWeeklyKey("key", keyId), ttl |-> ttlWeekly],
                 [key |-> TrackMonthlyKey("key", keyId), ttl |-> ttlMonthly]>>
        providerCmds ==
            (IF providerDailyMode = "fixed"
             THEN <<[key |-> TrackDailyFixedKey("provider", providerId, providerDailyReset.suffix),
                     ttl |-> ttlDailyProvider]>>
             ELSE <<>>)
            \o <<[key |-> TrackWeeklyKey("provider", providerId), ttl |-> ttlWeekly],
                 [key |-> TrackMonthlyKey("provider", providerId), ttl |-> ttlMonthly]>>
    IN  [z |-> z4,
         m |-> PipelineExec(mp, keyCmds \o providerCmds, cost, now),
         written |->
            [key |-> {k5} \cup (IF DailyRollingTracked(keyDailyMode) THEN {kd} ELSE {})
                          \cup {keyCmds[i].key : i \in 1..Len(keyCmds)},
             provider |-> {p5} \cup (IF DailyRollingTracked(providerDailyMode) THEN {pd} ELSE {})
                               \cup {providerCmds[i].key : i \in 1..Len(providerCmds)}]]

\* ---------------------------------------------------------- checkCostLimits
\* The limit list checkCostLimits builds from its argument.  An amount of
\* null is spelled 0: the code skips both alike (!limit.amount).
costLimits(limits) ==
    LET normalizedDailyReset == normalizeResetTime(limits.daily_reset_time)
        dailyResetMode == IF limits.daily_reset_mode = UndefinedMode THEN "fixed"
                          ELSE limits.daily_reset_mode
    IN  << [amount |-> limits.limit_5h_usd, period |-> "5h",
            resetTime |-> Undefined, resetMode |-> UndefinedMode],
           [amount |-> limits.limit_daily_usd, period |-> "daily",
            resetTime |-> normalizedDailyReset, resetMode |-> dailyResetMode],
           [amount |-> limits.limit_weekly_usd, period |-> "weekly",
            resetTime |-> Undefined, resetMode |-> UndefinedMode],
           [amount |-> limits.limit_monthly_usd, period |-> "monthly",
            resetTime |-> Undefined, resetMode |-> UndefinedMode] >>

\* Mutant: only a null amount is skipped.
HasAmount_NotNull(limit) == limit.amount # 0

\* !( !limit.amount || limit.amount <= 0 )
HasAmount(limit) == limit.amount > 0

IsRollingLimit(limit) ==
    limit.period = "5h" \/ (limit.period = "daily" /\ limit.resetMode = "rolling")

\* The cache key checkCostLimits reads for a limit (and its database path warms).
CheckCostLimitsKey(type, id, limit) ==
    IF limit.period = "5h" THEN Key5hRolling(type, id)
    ELSE IF limit.period = "daily" /\ limit.resetMode = "rolling" THEN KeyDailyRolling(type, id)
    ELSE LET suffix == resolveDailyReset(limit.resetTime).suffix
             periodKey == IF limit.period = "daily" THEN <<limit.period, "_">> \o suffix
                          ELSE <<limit.period>>
         IN  <<type, id, <<"cost_">> \o periodKey>>

\* The fast path, limit by limit from index i: "allowed", "denied" by the
\* limit at index i, or "miss" (fall back to the database), with the stores
\* as the reads leave them.
RECURSIVE CheckCostLimitsFast(_, _, _, _, _, _, _)
CheckCostLimitsFast(z, mp, type, id, lims, i, now) ==
    IF i > Len(lims)
    THEN [outcome |-> "allowed", i |-> i, current |-> 0, z |-> z, m |-> mp]
    ELSE
    LET limit == lims[i]
        key == CheckCostLimitsKey(type, id, limit)
    IN  IF ~HasAmount(limit) THEN CheckCostLimitsFast(z, mp, type, id, lims, i + 1, now)
        ELSE IF IsRollingLimit(limit)
        THEN LET r == GetScript(key, ZGet(z, key), now)
                 z2 == ZPut(z, key, r.z)
                 current == r.total
             IN  IF current = 0 /\ exists(mp, key, now) = 0
                 THEN [outcome |-> "miss", i |-> i, current |-> current, z |-> z2, m |-> mp]
                 ELSE IF current >= limit.amount
                 THEN [outcome |-> "denied", i |-> i, current |-> current, z |-> z2, m |-> mp]
                 ELSE CheckCostLimitsFast(z2, mp, type, id, lims, i + 1, now)
        ELSE LET g == get(mp, key, now)
             IN  IF ~g.found /\ limit.amount > 0
                 THEN [outcome |-> "miss", i |-> i, current |-> 0, z |-> z, m |-> g.data]
                 ELSE IF g.value >= limit.amount
                 THEN [outcome |-> "denied", i |-> i, current |-> g.value, z |-> z, m |-> g.data]
                 ELSE CheckCostLimitsFast(z, g.data, type, id, lims, i + 1, now)

\* checkCostLimitsFromDatabase: the next limit with an amount, from index i on.
RECURSIVE NextLimit(_, _)
NextLimit(lims, i) ==
    IF i > Len(lims) \/ HasAmount(lims[i]) THEN i ELSE NextLimit(lims, i + 1)

\* Cache warming of checkCostLimitsFromDatabase with the total just read.
WarmFromDatabase(z, mp, type, id, limit, current, now) ==
    LET key == CheckCostLimitsKey(type, id, limit)
    IN  IF limit.period = "5h"
        THEN [z |-> IF current > 0
                    THEN ZPut(z, key, trackCost5hRollingWindow(ZGet(z, key), current, now, window5h).z)
                    ELSE z,
              m |-> mp]
        ELSE IF limit.period = "daily" /\ limit.resetMode = "rolling"
        THEN [z |-> IF current > 0
                    THEN ZPut(z, key, trackCostDailyRollingWindow(ZGet(z, key), current, now, window24h).z)
                    ELSE z,
              m |-> mp]
        ELSE LET normalized == resolveDailyReset(limit.resetTime).normalized
                 ttl == getTTLForPeriodWithMode(limit.period, normalized, limit.resetMode)
             IN  [z |-> z, m |-> setex(mp, key, ttl, current, now)]

\* ----------------------------------------------------------- getCurrentCost
\* Default parameters: resetTime = "00:00", resetMode = "fixed".
DefaultTime(resetTime) == IF resetTime = Undefined THEN Midnight ELSE resetTime
DefaultMode(resetMode) == IF resetMode = UndefinedMode THEN "fixed" ELSE resetMode

\* The cache key getCurrentCost reads for a period (and warms).
GetCurrentCostKey(type, id, period, resetTime, resetMode) ==
    LET dailyResetInfo == resolveDailyReset(DefaultTime(resetTime))
    IN  IF period = "5h" THEN Key5hRolling(type, id)
        ELSE IF period = "daily" /\ DefaultMode(resetMode) = "rolling"
        THEN KeyDailyRolling(type, id)
        ELSE LET cacheKey == IF period = "daily" THEN <<period, "_">> \o dailyResetInfo.suffix
                             ELSE <<period>>
             IN  <<type, id, <<"cost_">> \o cacheKey>>

\* The fast path of getCurrentCost: a hit with its value, or a miss.
GetCurrentCostFast(z, mp, type, id, period, resetTime, resetMode, now) ==
    LET key == GetCurrentCostKey(type, id, period, resetTime, resetMode)
    IN  IF period = "5h" \/ (period = "daily" /\ DefaultMode(resetMode) = "rolling")
        THEN LET r == GetScript(key, ZGet(z, key), now)
                 z2 == ZPut(z, key, r.z)
             IN  IF r.total > 0 THEN [hit |-> TRUE, value |-> r.total, z |-> z2, m |-> mp]
                 ELSE IF exists(mp, key, now) = 0
                 THEN [hit |-> FALSE, value |-> 0, z |-> z2, m |-> mp]
                 ELSE [hit |-> TRUE, value |-> 0, z |-> z2, m |-> mp]
        ELSE LET g == get(mp, key, now)
             IN  [hit |-> g.found, value |-> g.value, z |-> z, m |-> g.data]

\* Cache warming of getCurrentCost with the total just read.
WarmCurrentCost(z, mp, type, id, period, resetTime, resetMode, current, now) ==
    LET key == GetCurrentCostKey(type, id, period, resetTime, resetMode)
        dailyResetInfo == resolveDailyReset(DefaultTime(resetTime))
    IN  IF period = "5h"
        THEN [z |-> IF current > 0
                    THEN ZPut(z, key, trackCost5hRollingWindow(ZGet(z, key), current, now, window5h).z)
                    ELSE z,
              m |-> mp]
        ELSE IF period = "daily" /\ DefaultMode(resetMode) = "rolling"
        THEN [z |-> IF current > 0
                    THEN ZPut(z, key, trackCostDailyRollingWindow(ZGet(z, key), current, now, window24h).z)
                    ELSE z,
              m |-> mp]
        ELSE LET ttl == getTTLForPeriodWithMode(period, dailyResetInfo.normalized,
                                                DefaultMode(resetMode))
             IN  [z |-> z, m |-> setex(mp, key, ttl, current, now)]

\* ================================================================= TrackSpec
\* trackCost called for key 1 and provider 1 with the reset options of the
\* two entities varying from call to call; between calls the clock may
\* advance by one millisecond less than five hours.
Periods == <<"5h", "daily", "weekly", "monthly">>
SixPm == <<"1", "8", ":", "0", "0">>
ResetTimes == {Midnight, SixPm}
ResetModes == {"fixed", "rolling"}

TrackInit ==
    /\ Idle
    /\ wkey = NoKey

TrackTick ==
    /\ ticks < MaxTicks
    /\ clock' = clock + (window5h - 1)
    /\ ticks' = ticks + 1
    /\ UNCHANGED <<zsetData, tracked, last, lastGet, wkey, nTrack, proc, rwMutex, stMutex,
                   status, mapData, cfg, epVars>>

TrackCostCall ==
    \E cost \in {0, MaxCost}, keyTime \in ResetTimes \cup {Undefined}, keyMode \in ResetModes,
       providerMode \in ResetModes :
        LET options == [keyResetTime |-> keyTime, keyResetMode |-> keyMode,
                        providerResetTime |-> Undefined, providerResetMode |-> providerMode]
            r == trackCost(zsetData, mapData, 1, 1, cost, options, clock)
        IN  /\ nTrack < MaxTracks
            /\ nTrack' = nTrack + 1
            /\ zsetData' = r.z
            /\ mapData' = r.m
            /\ last' = [op |-> "trackCost", cost |-> cost, now |-> clock,
                        time |-> [key |-> keyTime, provider |-> Undefined],
                        mode |-> [key |-> keyMode, provider |-> providerMode],
                        written |-> r.written]
            /\ UNCHANGED <<clock, ticks, tracked, lastGet, wkey, proc, rwMutex, stMutex,
                           status, cfg, epVars>>

TrackNext == TrackTick \/ TrackCostCall

TrackSpec == TrackInit /\ [][TrackNext]_vars

\* -------------------------------------------------------------------- C7
EntityTypes == {"key", "provider"}

IsDailyFixedKey(k, type, id) ==
    /\ k[1] = type
    /\ k[2] = id
    /\ Len(k[3]) >= 3
    /\ SubSeq(k[3], 1, 3) = <<"cost_", "daily", "_">>

DailyFixedKeys(data, type, id) == {k \in DOMAIN data : IsDailyFixedKey(k, type, id)}

\* C7: a trackCost call made with an entity's daily mode fixed leaves that
\* entity's cost_daily_rolling sorted set as it was, and with it the total a
\* rolling read of the daily window returns; a call made with the mode
\* rolling leaves every cost_daily_{HHmm} entry of the entity as it was.
C7_FixedRollingIsolated ==
    [][ (nTrack' = nTrack + 1 /\ last'.cost > 0) =>
          \A type \in EntityTypes :
            LET rolling == KeyDailyRolling(type, 1)
            IN  /\ last'.mode[type] = "fixed" =>
                     /\ ZGet(zsetData', rolling) = ZGet(zsetData, rolling)
                     /\ getCostDailyRollingWindow(ZGet(zsetData', rolling), clock, window24h).total
                          = getCostDailyRollingWindow(ZGet(zsetData, rolling), clock, window24h).total
                /\ last'.mode[type] = "rolling" =>
                     /\ DailyFixedKeys(mapData', type, 1) = DailyFixedKeys(mapData, type, 1)
                     /\ \A k \in DailyFixedKeys(mapData, type, 1) : mapData'[k] = mapData[k]
      ]_vars

\* The key was tracked in fixed mode while its daily rolling set held an
\* event, and the provider in rolling mode while it had a cost_daily_0000 entry.
C7_Witness ==
    /\ last.op = "trackCost"
    /\ last.cost > 0
    /\ last.mode["key"] = "fixed"
    /\ last.mode["provider"] = "rolling"
    /\ ZGet(zsetData, KeyDailyRolling("key", 1)) # <<>>
    /\ DailyFixedKeys(mapData, "provider", 1) # {}
    /\ DailyFixedKeys(mapData, "key", 1) # {}

\* -------------------------------------------------------------------- C8
\* The key names of the specification: cost_5h_rolling, cost_daily_rolling,
\* cost_daily_{HHmm}, cost_weekly, cost_monthly.
ExpectedKeyName(period, mode, time) ==
    LET t == IF time = Undefined THEN Midnight ELSE time
    IN  IF period = "5h" THEN <<"cost_5h_rolling">>
        ELSE IF period = "daily" /\ mode = "rolling" THEN <<"cost_daily_rolling">>
        ELSE IF period = "daily" THEN <<"cost_", "daily", "_", t[1], t[2], t[4], t[5]>>
        ELSE <<"cost_", period>>

ClockTimes ==
    {<<h[1], h[2], ":", m[1], m[2]>> :
        h \in {<<"0", "0">>, <<"0", "1">>, <<"1", "0">>, <<"1", "8">>},
        m \in {<<"0", "0">>, <<"0", "1">>, <<"1", "0">>, <<"3", "0">>}}

\* C8: the keys a trackCost call wrote for an entity are the keys
\* checkCostLimits and getCurrentCost read for that entity's reset time and
\* mode, period by period under the names of the specification, they are in
\* the store after the call, and no other reset time has the daily fixed
\* key the call wrote.
C8_TrackWritesTheKeysRead ==
    /\ (last.op = "trackCost" /\ last.cost > 0) =>
         \A type \in EntityTypes :
           LET time == last.time[type]
               mode == last.mode[type]
               lims == costLimits([limit_5h_usd |-> 1, limit_daily_usd |-> 1,
                                   limit_weekly_usd |-> 1, limit_monthly_usd |-> 1,
                                   daily_reset_time |-> time, daily_reset_mode |-> mode])
               expected == {<<type, 1, ExpectedKeyName(Periods[i], mode, time)>> : i \in 1..4}
           IN  /\ last.written[type] = expected
               /\ \A i \in 1..4 :
                    /\ CheckCostLimitsKey(type, 1, lims[i])
                         = <<type, 1, ExpectedKeyName(Periods[i], mode, time)>>
                    /\ GetCurrentCostKey(type, 1, Periods[i], time, mode)
                         = <<type, 1, ExpectedKeyName(Periods[i], mode, time)>>
               /\ last.written[type] \subseteq (DOMAIN zsetData \cup DOMAIN mapData)
    /\ (last.op = "trackCost" /\ last.cost > 0 /\ last.mode["key"] = "fixed") =>
         \A t \in ClockTimes :
           t # normalizeResetTime(last.time["key"]) =>
             TrackDailyFixedKey("key", 1, resolveDailyReset(t).suffix) \notin last.written["key"]

\* The key was tracked with reset time 18:00 in fixed mode, the provider in
\* rolling mode, and the entries are in the store.
C8_Witness ==
    /\ last.op = "trackCost"
    /\ last.cost > 0
    /\ last.time["key"] = SixPm
    /\ last.mode["key"] = "fixed"
    /\ last.mode["provider"] = "rolling"
    /\ <<"key", 1, <<"cost_", "daily", "_", "1", "8", "0", "0">>>> \in DOMAIN mapData
    /\ KeyDailyRolling("provider", 1) \in DOMAIN zsetData
    /\ nTrack = 1

\* ================================================================== CostSpec
\* Two concurrent requests for key 1, each calling checkCostLimits or
\* getCurrentCost, while costs are tracked for the key and the clock
\* advances.  The limits of the key are those the administration has
\* configured (cfg).  Every await of the service is a scheduling point: the
\* cache reads of the fast path (one step), each durable query, each cache
\* warming.  The durable store is a collaborator: a query returns whatever
\* total it holds at that moment, any value in 0..MaxDbTotal.
MaxAmount == 2
MaxDbTotal == 2

CostProcs == {1}
WarmProcs == {1, 2}

CostConfigs ==
    {[limit_5h_usd |-> a5, limit_daily_usd |-> ad, limit_weekly_usd |-> aw,
      limit_monthly_usd |-> 0, daily_reset_time |-> Undefined, daily_reset_mode |-> mode] :
        a5 \in {0, MaxAmount}, ad \in {0, MaxAmount}, aw \in {0, MaxAmount}, mode \in ResetModes}

NoVerdict == [allowed |-> TRUE, value |-> 0, by |-> 0]

CostIdle ==
    [pc |-> "idle", fn |-> "none", period |-> "none", i |-> 0, current |-> 0,
     res |-> NoVerdict, ready |-> TRUE, missAt |-> 0, present |-> {}, db |-> {}, seen |-> {},
     warmed |-> {}]

CostInit ==
    /\ clock = 0
    /\ ticks = 0
    /\ zsetData = << >>
    /\ mapData = << >>
    /\ tracked = <<>>
    /\ last = NoCall
    /\ lastGet = [k \in WindowKeys |-> NoGet]
    /\ nTrack = 0
    /\ wkey = NoKey
    /\ proc = [p \in CostProcs |-> CostIdle]
    /\ rwMutex = NoHolder
    /\ stMutex = NoHolder
    /\ NoEndpoints
    /\ status = "ready"
    /\ \E limits \in CostConfigs : cfg = [type |-> "key", id |-> 1, limits |-> limits]

CostFrame == UNCHANGED <<tracked, last, lastGet, wkey, rwMutex, stMutex, status, cfg, epVars>>

CostTurn(p) == \A q \in DOMAIN proc : q < p => proc[q].pc # "idle"

PeriodIndex(period) == CHOOSE i \in 1..Len(Periods) : Periods[i] = period

IsRollingKey(key) == key[3] \in {<<"cost_5h_rolling">>, <<"cost_daily_rolling">>}

\* The window of the key holds an event a read at now would count.
HoldsEvents(z, key, now) == GetScript(key, ZGet(z, key), now).z # <<>>

CostTick ==
    /\ ticks < MaxTicks
    /\ \E d \in {1, window5h - 1} : clock' = clock + d
    /\ ticks' = ticks + 1
    /\ UNCHANGED <<zsetData, mapData, nTrack, proc>>
    /\ CostFrame

\* trackCost after a completed request of key 1 through provider 1.
CostTrack ==
    \E cost \in 1..MaxCost :
        LET options == [keyResetTime |-> cfg.limits.daily_reset_time,
                        keyResetMode |-> cfg.limits.daily_reset_mode,
                        providerResetTime |-> Undefined, providerResetMode |-> UndefinedMode]
            r == trackCost(zsetData, mapData, cfg.id, 1, cost, options, clock)
        IN  /\ nTrack < MaxTracks
            /\ nTrack' = nTrack + 1
            /\ zsetData' = r.z
            /\ mapData' = r.m
            /\ UNCHANGED <<clock, ticks, proc>>
            /\ CostFrame

\* checkCostLimits up to its return or its fall-back to the database.
CheckCostLimitsCall(p) ==
    LET lims == costLimits(cfg.limits)
        first == NextLimit(lims, 1)
        f == CheckCostLimitsFast(zsetData, mapData, cfg.type, cfg.id, lims, 1, clock)
        present == {i \in 1..Len(lims) :
                       /\ status = "ready"
                       /\ HasAmount(lims[i])
                       /\ IsRollingLimit(lims[i])
                       /\ HoldsEvents(zsetData, CheckCostLimitsKey(cfg.type, cfg.id, lims[i]), clock)}
        c == [proc[p] EXCEPT !.fn = "checkCostLimits", !.ready = (status = "ready"),
                             !.present = present]
    IN  /\ proc[p].pc = "idle"
        /\ CostTurn(p)
        /\ IF status = "ready"
           THEN /\ zsetData' = f.z
                /\ mapData' = f.m
                /\ proc' = [proc EXCEPT ![p] =
                     IF f.outcome = "miss"
                     THEN [c EXCEPT !.pc = "dbQuery", !.i = first, !.missAt = f.i]
                     ELSE [c EXCEPT !.pc = "done",
                                    !.res = [allowed |-> f.outcome = "allowed",
                                             value |-> f.current,
                                             by |-> IF f.outcome = "denied" THEN f.i ELSE 0]]]
           ELSE /\ UNCHANGED <<zsetData, mapData>>
                /\ proc' = [proc EXCEPT ![p] =
                     IF first > Len(lims) THEN [c EXCEPT !.pc = "done"]
                     ELSE [c EXCEPT !.pc = "dbQuery", !.i = first]]
        /\ UNCHANGED <<clock, ticks, nTrack>>
        /\ CostFrame

\* checkCostLimitsFromDatabase: await sumKeyCostInTimeRange(id, startTime, endTime)
CheckCostLimitsQuery(p) ==
    LET c == proc[p]
    IN  /\ c.pc = "dbQuery"
        /\ c.fn = "checkCostLimits"
        /\ \E current \in 0..MaxDbTotal :
             proc' = [proc EXCEPT ![p] =
                 [c EXCEPT !.pc = "dbWarm", !.current = current, !.db = @ \cup {c.i},
                           !.seen = @ \cup {[i |-> c.i, value |-> current]}]]
        /\ UNCHANGED <<clock, ticks, zsetData, mapData, nTrack>>
        /\ CostFrame

\* checkCostLimitsFromDatabase: cache warming, the comparison, the next limit.
CheckCostLimitsWarm(p) ==
    LET c == proc[p]
        lims == costLimits(cfg.limits)
        limit == lims[c.i]
        key == CheckCostLimitsKey(cfg.type, cfg.id, limit)
        w == WarmFromDatabase(zsetData, mapData, cfg.type, cfg.id, limit, c.current, clock)
        wrote == status = "ready" /\ (IsRollingLimit(limit) => c.current > 0)
        next == NextLimit(lims, c.i + 1)
        c2 == [c EXCEPT !.warmed = IF wrote
                                   THEN @ \cup {[key |-> key, i |-> c.i, value |-> c.current, at |-> clock]}
                                   ELSE @]
    IN  /\ c.pc = "dbWarm"
        /\ c.fn = "checkCostLimits"
        /\ IF status = "ready"
           THEN zsetData' = w.z /\ mapData' = w.m
           ELSE UNCHANGED <<zsetData, mapData>>
        /\ proc' = [proc EXCEPT ![p] =
             IF c.current >= limit.amount
             THEN [c2 EXCEPT !.pc = "done",
                             !.res = [allowed |-> FALSE, value |-> c.current, by |-> c.i]]
             ELSE IF next > Len(lims)
             THEN [c2 EXCEPT !.pc = "done",
                             !.res = [allowed |-> TRUE, value |-> 0, by |-> 0]]
             ELSE [c2 EXCEPT !.pc = "dbQuery", !.i = next]]
        /\ UNCHANGED <<clock, ticks, nTrack>>
        /\ CostFrame

\* getCurrentCost up to its return on a cache hit or its fall-back to the database.
GetCurrentCostCall(p) ==
    \E period \in {Periods[i] : i \in 1..Len(Periods)} :
        LET f == GetCurrentCostFast(zsetData, mapData, cfg.type, cfg.id, period,
                                    cfg.limits.daily_reset_time, cfg.limits.daily_reset_mode,
                                    clock)
            key == GetCurrentCostKey(cfg.type, cfg.id, period,
                                     cfg.limits.daily_reset_time, cfg.limits.daily_reset_mode)
            present == IF status = "ready" /\ IsRollingKey(key)
                          /\ HoldsEvents(zsetData, key, clock)
                       THEN {PeriodIndex(period)} ELSE {}
            c == [proc[p] EXCEPT !.fn = "getCurrentCost", !.period = period,
                                 !.i = PeriodIndex(period), !.ready = (status = "ready"),
                                 !.present = present]
        IN  /\ proc[p].pc = "idle"
            /\ CostTurn(p)
            /\ IF status = "ready"
               THEN /\ zsetData' = f.z
                    /\ mapData' = f.m
                    /\ proc' = [proc EXCEPT ![p] =
                         IF f.hit
                         THEN [c EXCEPT !.pc = "done",
                                        !.res = [allowed |-> TRUE, value |-> f.value, by |-> 0]]
                         ELSE [c EXCEPT !.pc = "dbQuery", !.missAt = PeriodIndex(period)]]
               ELSE /\ UNCHANGED <<zsetData, mapData>>
                    /\ proc' = [proc EXCEPT ![p] = [c EXCEPT !.pc = "dbQuery"]]
            /\ UNCHANGED <<clock, ticks, nTrack>>
            /\ CostFrame

\* getCurrentCost: await sumKeyCostInTimeRange(id, startTime, endTime)
GetCurrentCostQuery(p) ==
    LET c == proc[p]
    IN  /\ c.pc = "dbQuery"
        /\ c.fn = "getCurrentCost"
        /\ \E current \in 0..MaxDbTotal :
             proc' = [proc EXCEPT ![p] =
                 [c EXCEPT !.pc = "dbWarm", !.current = current, !.db = @ \cup {c.i},
                           !.seen = @ \cup {[i |-> c.i, value |-> current]}]]
        /\ UNCHANGED <<clock, ticks, zsetData, mapData, nTrack>>
        /\ CostFrame

\* getCurrentCost: cache warming, return current.
GetCurrentCostWarm(p) ==
    LET c == proc[p]
        time == cfg.limits.daily_reset_time
        mode == cfg.limits.daily_reset_mode
        key == GetCurrentCostKey(cfg.type, cfg.id, c.period, time, mode)
        rolling == c.period = "5h" \/ (c.period = "daily" /\ DefaultMode(mode) = "rolling")
        w == WarmCurrentCost(zsetData, mapData, cfg.type, cfg.id, c.period, time, mode,
                             c.current, clock)
        wrote == status = "ready" /\ (rolling => c.current > 0)
    IN  /\ c.pc = "dbWarm"
        /\ c.fn = "getCurrentCost"
        /\ IF status = "ready"
           THEN zsetData' = w.z /\ mapData' = w.m
           ELSE UNCHANGED <<zsetData, mapData>>
        /\ proc' = [proc EXCEPT ![p] =
             [c EXCEPT !.pc = "done",
                       !.res = [allowed |-> TRUE, value |-> c.current, by |-> 0],
                       !.warmed = IF wrote
                                  THEN @ \cup {[key |-> key, i |-> c.i, value |-> c.current, at |-> clock]}
                                  ELSE @]]
        /\ UNCHANGED <<clock, ticks, nTrack>>
        /\ CostFrame

CostNext ==
    \/ CostTick
    \/ CostTrack
    \/ \E p \in CostProcs :
         \/ CheckCostLimitsCall(p)
         \/ CheckCostLimitsQuery(p)
         \/ CheckCostLimitsWarm(p)
         \/ GetCurrentCostCall(p)
         \/ GetCurrentCostQuery(p)
         \/ GetCurrentCostWarm(p)

CostSpec == CostInit /\ [][CostNext]_vars

\* ================================================================== WarmSpec
\* Two concurrent requests for key 1 on a cache nothing is tracked into,
\* issued within a few milliseconds of each other.
WarmInit ==
    /\ clock = 0
    /\ ticks = 0
    /\ zsetData = << >>
    /\ mapData = << >>
    /\ tracked = <<>>
    /\ last = NoCall
    /\ lastGet = [k \in WindowKeys |-> NoGet]
    /\ nTrack = 0
    /\ wkey = NoKey
    /\ proc = [p \in WarmProcs |-> CostIdle]
    /\ rwMutex = NoHolder
    /\ stMutex = NoHolder
    /\ NoEndpoints
    /\ status = "ready"
    /\ \E limits \in CostConfigs : cfg = [type |-> "key", id |-> 1, limits |-> limits]

WarmTick ==
    /\ ticks < MaxTicks
    /\ clock' = clock + 1
    /\ ticks' = ticks + 1
    /\ UNCHANGED <<zsetData, mapData, nTrack, proc>>
    /\ CostFrame

WarmNext ==
    \/ WarmTick
    \/ \E p \in WarmProcs :
         \/ CheckCostLimitsCall(p)
         \/ CheckCostLimitsQuery(p)
         \/ CheckCostLimitsWarm(p)
         \/ GetCurrentCostCall(p)
         \/ GetCurrentCostQuery(p)
         \/ GetCurrentCostWarm(p)

WarmSpec == WarmInit /\ [][WarmNext]_vars

\* -------------------------------------------------------------------- C9
\* C9: a call made with the store ready queries the durable store for no
\* rolling-window period whose key held events of the window when the call
\* read the cache.
C9_DurableQueryOnlyWhenKeyAbsent ==
    \A p \in DOMAIN proc : proc[p].db \cap proc[p].present = {}

\* ------------------------------------------------------------------- C10
\* What a read at time now finds under key.
CachedTotal(key, now) ==
    IF IsRollingKey(key) THEN GetScript(key, ZGet(zsetData, key), now).total
    ELSE get(mapData, key, now).value

\* C10: when two calls of the same function missed the cache at the same
\* period, both have warmed its key and both have returned, with nothing
\* tracked meanwhile, the key reads as the value one of the two wrote.
C10_WarmersLastWriteWins ==
    \A p, q \in DOMAIN proc :
        (/\ p # q
         /\ nTrack = 0
         /\ proc[p].pc = "done" /\ proc[q].pc = "done"
         /\ proc[p].fn = proc[q].fn
         /\ proc[p].missAt # 0 /\ proc[p].missAt = proc[q].missAt) =>
            \A wp \in proc[p].warmed, wq \in proc[q].warmed :
                (wp.key = wq.key /\ wp.i = proc[p].missAt) =>
                    CachedTotal(wp.key, Max(wp.at, wq.at)) \in {wp.value, wq.value}

\* ============================================================ SessionTracker
GlobalSessionsKey == <<"global", 0, <<"active_sessions">>>>
KeySessionsKey(keyId) == <<"key", keyId, <<"active_sessions">>>>
SessionInfoKey(sessionId) == <<"session", sessionId, <<"info">>>>

\* Mutant: the store counts as ready whatever its status.
StoreReady_Always(st) == TRUE

\* client.status === "ready"
StoreReady(st) == st = "ready"

\* trackSession: the pipeline of zadd / expire on the global and key sets.
trackSession(z, mp, sessionId, keyId, now) ==
    LET z1 == ZPut(z, GlobalSessionsKey, zadd(ZGet(z, GlobalSessionsKey), now, sessionId))
        m1 == expire(mp, GlobalSessionsKey, 3600, now)
        z2 == ZPut(z1, KeySessionsKey(keyId), zadd(ZGet(z1, KeySessionsKey(keyId)), now, sessionId))
        m2 == expire(m1, KeySessionsKey(keyId), 3600, now)
    IN  [z |-> z2, m |-> m2]

\* countFromZSet: trim, list the remaining ids, count those whose
\* session:{id}:info entry exists.
countFromZSet(z, mp, key, now) ==
    LET fiveMinutesAgo == now - SESSION_TTL
        trimmed == zremrangebyscore(ZGet(z, key), NEG_INFINITY, fiveMinutesAgo)
        sessionIds == zrange(trimmed, 0, -1)
    IN  [z |-> ZPut(z, key, trimmed),
         count |-> Cardinality({i \in 1..Len(sessionIds) :
                                   exists(mp, SessionInfoKey(sessionIds[i]), now) = 1})]

\* getKeySessionCount / getProviderSessionCount
getSessionCount(st, z, mp, key, now) ==
    IF ~StoreReady(st) THEN [z |-> z, count |-> 0]
    ELSE countFromZSet(z, mp, key, now)

\* ------------------------------------------- RateLimitService, whole calls
checkSessionLimit(st, z, mp, id, type, limit, now) ==
    IF limit <= 0 THEN [z |-> z, allowed |-> TRUE]
    ELSE LET key == IF type = "key" THEN KeySessionsKey(id) ELSE ProviderSessionsKey(id)
             r == getSessionCount(st, z, mp, key, now)
         IN  [z |-> r.z, allowed |-> ~(r.count >= limit)]

\* The script checkAndTrackSession run as a whole under its mutex.
checkAndTrackSession(z, sessionId, limit, now) ==
    LET trimmed == zremrangebyscore(z, NEG_INFINITY, now - SESSION_TTL)
        isTracked == ~zscore(trimmed, sessionId).isNull
        currentCount == zcard(trimmed)
    IN  IF LimitReached(limit, isTracked, currentCount)
        THEN [z |-> trimmed, allowed |-> FALSE, currentCount |-> currentCount, tracked |-> FALSE]
        ELSE [z |-> zadd(trimmed, now, sessionId), allowed |-> TRUE,
              currentCount |-> IF isTracked THEN currentCount ELSE currentCount + 1,
              tracked |-> ~isTracked]

checkAndTrackProviderSession(st, z, providerId, sessionId, limit, now) ==
    IF limit <= 0 THEN [z |-> z, allowed |-> TRUE, count |-> 0, tracked |-> FALSE]
    ELSE IF ~StoreReady(st) THEN [z |-> z, allowed |-> TRUE, count |-> 0, tracked |-> FALSE]
    ELSE LET key == ProviderSessionsKey(providerId)
             r == checkAndTrackSession(ZGet(z, key), sessionId, limit, now)
         IN  [z |-> ZPut(z, key, r.z), allowed |-> r.allowed, count |-> r.currentCount,
              tracked |-> r.tracked]

UserRpmKey(userId) == <<"user", userId, <<"rpm_window">>>>
UserDailyCostKey(userId) == <<"user", userId, <<"daily_cost">>>>
RpmWindow == 60000

\* checkUserRPM.  The member `${now}:${Math.random()}` is the pair of now
\* and a number no member recorded in the same millisecond has.
checkUserRPM(z, mp, userId, rpmLimit, now) ==
    IF rpmLimit <= 0 THEN [z |-> z, m |-> mp, allowed |-> TRUE, current |-> 0]
    ELSE LET key == UserRpmKey(userId)
             oneMinuteAgo == now - RpmWindow
             trimmed == zremrangebyscore(ZGet(z, key), NEG_INFINITY, oneMinuteAgo)
             count == zcard(trimmed)
         IN  IF count >= rpmLimit
             THEN [z |-> ZPut(z, key, trimmed), m |-> mp, allowed |-> FALSE, current |-> count]
             ELSE [z |-> ZPut(z, key, zadd(trimmed, now, <<now, count>>)),
                   m |-> expire(mp, key, 120, now),
                   allowed |-> TRUE, current |-> count + 1]

\* time-utils.getSecondsUntilMidnight, taken to be a day away.
getSecondsUntilMidnight == SecondsToReset

\* checkUserDailyCost; dbTotal is what sumUserCostToday reports if asked.
checkUserDailyCost(mp, userId, dailyLimitUsd, dbTotal, now) ==
    IF dailyLimitUsd <= 0 THEN [m |-> mp, allowed |-> TRUE, current |-> 0]
    ELSE LET key == UserDailyCostKey(userId)
             cached == get(mp, key, now)
             currentCost == IF cached.found THEN cached.value ELSE dbTotal
             m2 == IF cached.found THEN cached.data
                   ELSE setex(cached.data, key, getSecondsUntilMidnight, dbTotal, now)
         IN  [m |-> m2, allowed |-> ~(currentCost >= dailyLimitUsd), current |-> currentCost]

\* ============================================================== FailOpenSpec
\* One request at a time against a store whose status the embedding
\* application changes.  The admission checks work on disjoint keys, so a
\* run follows one family of them (wkey): the cost limits of key 1 with the
\* costs tracked for it, the session limits with the sessions tracked and
\* bound, or the two checks of user 1.
CostFocus == <<"focus", 0, <<"cost">>>>
SessionFocus == <<"focus", 0, <<"session">>>>
UserFocus == <<"focus", 0, <<"user">>>>
FailProcs == {1}
FailSessions == {1, 2}
FailConfigs ==
    {[limit_5h_usd |-> a5, limit_daily_usd |-> MaxAmount, limit_weekly_usd |-> 0,
      limit_monthly_usd |-> 0, daily_reset_time |-> Undefined, daily_reset_mode |-> mode] :
        a5 \in {0, MaxAmount}, mode \in ResetModes}

FailInit ==
    /\ clock = 0
    /\ ticks = 0
    /\ zsetData = << >>
    /\ mapData = << >>
    /\ tracked = <<>>
    /\ last = NoCall
    /\ lastGet = [k \in WindowKeys |-> NoGet]
    /\ nTrack = 0
    /\ wkey \in {CostFocus, SessionFocus, UserFocus}
    /\ proc = [p \in FailProcs |-> CostIdle]
    /\ rwMutex = NoHolder
    /\ stMutex = NoHolder
    /\ NoEndpoints
    /\ status = "ready"
    /\ \E limits \in FailConfigs :
         /\ cfg = [type |-> "key", id |-> 1, limits |-> limits]
         /\ wkey # CostFocus =>
              (limits.limit_5h_usd = 0 /\ limits.daily_reset_mode = "fixed")

FailFrame == UNCHANGED <<tracked, lastGet, wkey, rwMutex, stMutex, cfg, epVars>>

FailTick ==
    /\ ticks < MaxTicks
    /\ clock' = clock + RpmWindow
    /\ ticks' = ticks + 1
    /\ UNCHANGED <<zsetData, mapData, nTrack, proc, last, status>>
    /\ FailFrame

\* The public field status is assigned.
StatusSet ==
    /\ \E st \in {"ready", "connecting", "end"} : st # status /\ status' = st
    /\ UNCHANGED <<clock, ticks, zsetData, mapData, nTrack, proc, last>>
    /\ FailFrame

\* InMemoryStore.destroy()
Destroy ==
    /\ status # "end"
    /\ zsetData' = << >>
    /\ mapData' = << >>
    /\ status' = "end"
    /\ UNCHANGED <<clock, ticks, nTrack, proc, last>>
    /\ FailFrame

\* SessionTracker.trackSession(sessionId, 1)
FailTrackSession ==
    \E sessionId \in FailSessions :
        LET r == trackSession(zsetData, mapData, sessionId, 1, clock)
        IN  /\ wkey = SessionFocus
            /\ nTrack < MaxTracks
            /\ nTrack' = nTrack + 1
            /\ zsetData' = IF StoreReady(status) THEN r.z ELSE zsetData
            /\ mapData' = IF StoreReady(status) THEN r.m ELSE mapData
            /\ UNCHANGED <<clock, ticks, proc, last, status>>
            /\ FailFrame

\* The session manager writes the session:{id}:info entry of a session.
FailBindSession ==
    \E sessionId \in FailSessions :
        /\ wkey = SessionFocus
        /\ nTrack < MaxTracks
        /\ nTrack' = nTrack + 1
        /\ mapData' = setex(mapData, SessionInfoKey(sessionId), 300, 1, clock)
        /\ UNCHANGED <<clock, ticks, zsetData, proc, last, status>>
        /\ FailFrame

\* The requests recorded for the user in the minute before now.
RequestsInWindow(z, userId, now) ==
    Cardinality({i \in 1..Len(ZGet(z, UserRpmKey(userId))) :
                    ZGet(z, UserRpmKey(userId))[i].score > now - RpmWindow})

CheckSessionLimitCall ==
    \E type \in EntityTypes, limit \in 0..MaxLimit :
        LET r == checkSessionLimit(status, zsetData, mapData, 1, type, limit, clock)
            key == IF type = "key" THEN KeySessionsKey(1) ELSE ProviderSessionsKey(1)
        IN  /\ wkey = SessionFocus
            /\ zsetData' = r.z
            /\ last' = [op |-> "checkSessionLimit", ready |-> status = "ready",
                        allowed |-> r.allowed, limit |-> limit,
                        held |-> countFromZSet(zsetData, mapData, key, clock).count]
            /\ UNCHANGED <<clock, ticks, mapData, nTrack, proc, status>>
            /\ FailFrame

CheckAndTrackProviderSessionCall ==
    \E sessionId \in FailSessions, limit \in 0..MaxLimit :
        LET r == checkAndTrackProviderSession(status, zsetData, 1, sessionId, limit, clock)
        IN  /\ wkey = SessionFocus
            /\ zsetData' = r.z
            /\ last' = [op |-> "checkAndTrackProviderSession", ready |-> status = "ready",
                        allowed |-> r.allowed, limit |-> limit,
                        held |-> zcard(ZGet(zsetData, ProviderSessionsKey(1)))]
            /\ UNCHANGED <<clock, ticks, mapData, nTrack, proc, status>>
            /\ FailFrame

CheckUserRPMCall ==
    \E rpmLimit \in 0..MaxLimit :
        LET r == checkUserRPM(zsetData, mapData, 1, rpmLimit, clock)
        IN  /\ wkey = UserFocus
            /\ zsetData' = r.z
            /\ mapData' = r.m
            /\ last' = [op |-> "checkUserRPM", ready |-> status = "ready",
                        allowed |-> r.allowed, limit |-> rpmLimit,
                        held |-> RequestsInWindow(zsetData, 1, clock)]
            /\ UNCHANGED <<clock, ticks, nTrack, proc, status>>
            /\ FailFrame

CheckUserDailyCostCall ==
    \E dailyLimitUsd \in 0..MaxAmount, dbTotal \in 0..MaxDbTotal :
        LET r == checkUserDailyCost(mapData, 1, dailyLimitUsd, dbTotal, clock)
            key == UserDailyCostKey(1)
            cachedLive == key \in DOMAIN mapData /\ ~isExpired(mapData[key], clock)
        IN  /\ wkey = UserFocus
            /\ mapData' = r.m
            /\ last' = [op |-> "checkUserDailyCost", ready |-> status = "ready",
                        allowed |-> r.allowed, limit |-> dailyLimitUsd,
                        held |-> IF cachedLive THEN mapData[key].value ELSE dbTotal]
            /\ UNCHANGED <<clock, ticks, zsetData, nTrack, proc, status>>
            /\ FailFrame

FailNext ==
    \/ FailTick
    \/ StatusSet
    \/ Destroy
    \/ FailTrackSession
    \/ FailBindSession
    \/ (wkey = CostFocus /\ CostTrack)
    \/ CheckSessionLimitCall
    \/ CheckAndTrackProviderSessionCall
    \/ CheckUserRPMCall
    \/ CheckUserDailyCostCall
    \/ \E p \in FailProcs :
         \/ (wkey = CostFocus /\ CheckCostLimitsCall(p))
         \/ CheckCostLimitsQuery(p)
         \/ CheckCostLimitsWarm(p)

FailOpenSpec == FailInit /\ [][FailNext]_vars

\* -------------------------------------------------------------------- C2
CostCallsNotReady ==
    {p \in DOMAIN proc : proc[p].pc = "done" /\ proc[p].fn = "checkCostLimits" /\ ~proc[p].ready}

FallbackProcs == {1}

FallbackIdle == CostIdle @@ [level |-> "none", throws |-> 0]

FallbackInit ==
    /\ clock = 0
    /\ ticks = 0
    /\ zsetData = << >>
    /\ mapData = << >>
    /\ tracked = <<>>
    /\ last = NoCall
    /\ lastGet = [k \in WindowKeys |-> NoGet]
    /\ nTrack = 0
    /\ wkey \in {CostFocus, UserFocus}
    /\ proc = [p \in FallbackProcs |-> FallbackIdle]
    /\ rwMutex = NoHolder
    /\ stMutex = NoHolder
    /\ NoEndpoints
    /\ status = "ready"
    /\ \E limits \in FailConfigs :
         /\ cfg = [type |-> "key", id |-> 1, limits |-> limits]
         /\ wkey # CostFocus =>
              (limits.limit_5h_usd = 0 /\ limits.daily_reset_mode = "fixed")

\* The handler enclosing the call of checkCostLimitsFromDatabase in progress.
FallbackLevel(c, lims) ==
    IF c.level # "none" THEN c.level
    ELSE IF c.ready /\ c.missAt # 0 /\ IsRollingLimit(lims[c.missAt]) THEN "inner"
    ELSE "try"

\* checkCostLimitsFromDatabase: await sumKeyCostInTimeRange(...) throws.  The
\* enclosing catch calls checkCostLimitsFromDatabase again from the first
\* limit; thrown from the outermost catch, the error rejects checkCostLimits.
CheckCostLimitsThrow(p) ==
    LET c == proc[p]
        lims == costLimits(cfg.limits)
        level == FallbackLevel(c, lims)
    IN  /\ c.pc = "dbQuery"
        /\ c.fn = "checkCostLimits"
        /\ proc' = [proc EXCEPT ![p] =
             IF level = "catch"
             THEN [c EXCEPT !.pc = "thrown", !.throws = @ + 1, !.db = @ \cup {c.i}]
             ELSE [c EXCEPT !.pc = "dbQuery", !.i = NextLimit(lims, 1), !.throws = @ + 1,
                            !.db = @ \cup {c.i},
                            !.level = IF level = "inner" THEN "try" ELSE "catch"]]
        /\ UNCHANGED <<clock, ticks, zsetData, mapData, nTrack>>
        /\ CostFrame

\* checkUserDailyCost where sumUserCostToday, if asked, returns db.total or
\* throws (~db.ok): the catch of lines 776-779 returns allowed: true.
checkUserDailyCostDb(mp, userId, dailyLimitUsd, db, now) ==
    LET key == UserDailyCostKey(userId)
        cached == get(mp, key, now)
    IN  IF dailyLimitUsd > 0 /\ ~cached.found /\ ~db.ok
        THEN [m |-> cached.data, allowed |-> TRUE, current |-> 0, threw |-> TRUE]
        ELSE [threw |-> FALSE] @@ checkUserDailyCost(mp, userId, dailyLimitUsd, db.total, now)

DbOutcomes == {[ok |-> TRUE, total |-> t] : t \in 0..MaxDbTotal} \cup {[ok |-> FALSE, total |-> 0]}

FallbackUserDailyCostCall ==
    \E dailyLimitUsd \in 0..MaxAmount, db \in DbOutcomes :
        LET r == checkUserDailyCostDb(mapData, 1, dailyLimitUsd, db, clock)
        IN  /\ wkey = UserFocus
            /\ mapData' = r.m
            /\ last' = [op |-> "checkUserDailyCost", threw |-> r.threw,
                        allowed |-> r.allowed, limit |-> dailyLimitUsd, current |-> r.current]
            /\ UNCHANGED <<clock, ticks, zsetData, nTrack, proc, status>>
            /\ FailFrame

FallbackNext ==
    \/ FailTick
    \/ Destroy
    \/ (wkey = CostFocus /\ CostTrack)
    \/ FallbackUserDailyCostCall
    \/ \E p \in FallbackProcs :
         \/ (wkey = CostFocus /\ CheckCostLimitsCall(p))
         \/ CheckCostLimitsQuery(p)
         \/ CheckCostLimitsWarm(p)
         \/ CheckCostLimitsThrow(p)

FallbackSpec == FallbackInit /\ [][FallbackNext]_vars

\* ------------------------------------------------------------------- C11
\* C11: when a durable query has thrown during a check, checkCostLimits and
\* checkUserDailyCost return allowed = true: the call neither ends by raising
\* the error nor denies.
C11_DbFailureAllows ==
    /\ \A p \in DOMAIN proc :
         (proc[p].throws > 0 /\ proc[p].pc \in {"done", "thrown"}) =>
             (proc[p].pc = "done" /\ proc[p].res.allowed)
    /\ (last.op = "checkUserDailyCost" /\ last.threw) => last.allowed

\* =============================================================== HealthSpec
\* Requests report their outcome to EndpointHealthTracker, one call at a
\* time.  The table holds two endpoints of provider 1; id 0 is the synthetic
\* default endpoint, which has no row.  The caller supplies currentFailures:
\* any count in 0..MaxFailures, the stored one included.
MaxFailures == 3
MaxCalls == 4
FAILURE_THRESHOLD == 3
DEGRADED_THRESHOLD == 1

HealthIds == {0, 1, 2}

\* A row of provider_endpoints (createEndpoint: health "unknown", 0 failures).
\* url is the token pair <<"url", id>>; apiKey is null (<<>>) unless own.
NullKey == <<>>
Endpoint(id, providerId, priority, weight) ==
    [id |-> id, providerId |-> providerId, url |-> <<"url", id>>, apiKey |-> NullKey,
     priority |-> priority, weight |-> weight,
     isEnabled |-> TRUE, healthStatus |-> "unknown", consecutiveFailures |-> 0]

RowOf(table, id) == CHOOSE i \in 1..Len(table) : table[i].id = id
HasRow(table, id) == \E i \in 1..Len(table) : table[i].id = id

\* updateEndpointHealth(id, health): UPDATE ... WHERE id = id; throws when no
\* row was updated.
updateEndpointHealth(table, id, consecutiveFailures, healthStatus) ==
    IF HasRow(table, id)
    THEN [table |-> [table EXCEPT ![RowOf(table, id)] =
                        [@ EXCEPT !.consecutiveFailures = consecutiveFailures,
                                  !.healthStatus = healthStatus]],
          threw |-> FALSE]
    ELSE [table |-> table, threw |-> TRUE]

IsDefaultEndpoint_Never(endpointId) == FALSE
IsDefaultEndpoint(endpointId) == endpointId = 0

\* Mutant: the first failure does not yet degrade.
healthStatusFor_DegradedLate(newFailures) ==
    IF newFailures >= FAILURE_THRESHOLD THEN "unhealthy"
    ELSE IF newFailures > DEGRADED_THRESHOLD THEN "degraded"
    ELSE "healthy"
healthStatusFor_Late(newFailures) ==
    IF newFailures > FAILURE_THRESHOLD THEN "unhealthy"
    ELSE IF newFailures >= DEGRADED_THRESHOLD THEN "degraded"
    ELSE "healthy"
healthStatusFor(newFailures) ==
    IF newFailures >= FAILURE_THRESHOLD THEN "unhealthy"
    ELSE IF newFailures >= DEGRADED_THRESHOLD THEN "degraded"
    ELSE "healthy"

\* recordSuccess(endpointId)
recordSuccess(table, endpointId) ==
    IF IsDefaultEndpoint(endpointId)
    THEN [table |-> table, statements |-> 0, threw |-> FALSE]
    ELSE LET u == updateEndpointHealth(table, endpointId, 0, "healthy")
         IN  [table |-> u.table, statements |-> 1, threw |-> u.threw]

\* recordFailure(endpointId, currentFailures)
recordFailure(table, endpointId, currentFailures) ==
    IF IsDefaultEndpoint(endpointId)
    THEN [table |-> table, statements |-> 0, threw |-> FALSE, result |-> "healthy"]
    ELSE LET newFailures == currentFailures + 1
             healthStatus == healthStatusFor(newFailures)
             u == updateEndpointHealth(table, endpointId, newFailures, healthStatus)
         IN  [table |-> u.table, statements |-> 1, threw |-> u.threw, result |-> healthStatus]

NoHealthCall ==
    [op |-> "none", seq |-> 0, id |-> 0, currentFailures |-> 0, result |-> "none",
     threw |-> FALSE, streak |-> 0]

\* The store is not involved: its variables stay as constructed.
StoreUntouched ==
    UNCHANGED <<clock, ticks, zsetData, tracked, lastGet, wkey, nTrack, proc, rwMutex,
                stMutex, status, mapData, cfg>>

HealthInit ==
    /\ clock = 0
    /\ ticks = 0
    /\ zsetData = << >>
    /\ tracked = <<>>
    /\ last = NoHealthCall
    /\ lastGet = [k \in WindowKeys |-> NoGet]
    /\ wkey = NoKey
    /\ nTrack = 0
    /\ proc = << >>
    /\ rwMutex = NoHolder
    /\ stMutex = NoHolder
    /\ status = "ready"
    /\ mapData = << >>
    /\ cfg = NoConfig
    /\ \E h \in {"unknown", "healthy"} :
         endpoints = <<[Endpoint(1, 1, 1, 1) EXCEPT !.healthStatus = h],
                       [Endpoint(2, 1, 3, 1) EXCEPT !.healthStatus = h]>>
    /\ roundRobinIndex = << >>
    /\ writes = 0

Stored(table, id) ==
    IF HasRow(table, id) THEN table[RowOf(table, id)]
    ELSE [id |-> id, healthStatus |-> "none", consecutiveFailures |-> 0]

RecordSuccess ==
    \E endpointId \in HealthIds :
        LET r == recordSuccess(endpoints, endpointId)
        IN  /\ last.seq < MaxCalls
            /\ endpoints' = r.table
            /\ writes' = writes + r.statements
            /\ last' = [op |-> "recordSuccess", seq |-> last.seq + 1, id |-> endpointId,
                        currentFailures |-> 0, result |-> "none", threw |-> r.threw,
                        streak |-> 0]
            /\ UNCHANGED roundRobinIndex
            /\ StoreUntouched

\* streak counts the recordFailure calls in a row on one endpoint, each
\* passed the stored count, since that endpoint was healthy with 0 failures.
RecordFailure ==
    \E endpointId \in HealthIds, currentFailures \in 0..MaxFailures :
        LET r == recordFailure(endpoints, endpointId, currentFailures)
            before == Stored(endpoints, endpointId)
            accurate == currentFailures = before.consecutiveFailures
            streak == IF ~accurate \/ IsDefaultEndpoint(endpointId) THEN 0
                      ELSE IF before.healthStatus = "healthy" /\ before.consecutiveFailures = 0
                      THEN 1
                      ELSE IF last.op = "recordFailure" /\ last.id = endpointId /\ last.streak > 0
                      THEN last.streak + 1
                      ELSE 0
        IN  /\ last.seq < MaxCalls
            /\ endpoints' = r.table
            /\ writes' = writes + r.statements
            /\ last' = [op |-> "recordFailure", seq |-> last.seq + 1, id |-> endpointId,
                        currentFailures |-> currentFailures, result |-> r.result,
                        threw |-> r.threw, streak |-> streak]
            /\ UNCHANGED roundRobinIndex
            /\ StoreUntouched

HealthNext ==
    \/ RecordSuccess
    \/ RecordFailure

HealthSpec == HealthInit /\ [][HealthNext]_vars

\* ------------------------------------------------------------------- C12
\* C12: from healthy with 0 failures, the first, second and third
\* recordFailure in a row on an endpoint with id # 0, each passed the stored
\* count, leave it degraded with 1, degraded with 2, unhealthy with 3 and
\* return that status; a recordSuccess leaves the endpoint healthy with 0
\* failures whatever it was before.
ExpectedAfterStreak(k) ==
    IF k = 3 THEN "unhealthy" ELSE "degraded"

C12_ThreeFailuresThenUnhealthy ==
    /\ (last.op = "recordFailure" /\ last.streak \in 1..3) =>
          /\ Stored(endpoints, last.id).consecutiveFailures = last.streak
          /\ Stored(endpoints, last.id).healthStatus = ExpectedAfterStreak(last.streak)
          /\ last.result = ExpectedAfterStreak(last.streak)
    /\ (last.op = "recordSuccess" /\ last.id # 0) =>
          /\ Stored(endpoints, last.id).consecutiveFailures = 0
          /\ Stored(endpoints, last.id).healthStatus = "healthy"

\* The third failure in a row has just made endpoint 1 unhealthy.
C12_Witness ==
    /\ last.op = "recordFailure"
    /\ last.id = 1
    /\ last.streak = 3
    /\ Stored(endpoints, 1).healthStatus = "unhealthy"

\* ------------------------------------------------------------------- C13
\* C13: a recordSuccess(0) or recordFailure(0, n) step issues no statement
\* to the durable store and leaves every endpoint row as it was, and
\* recordFailure(0, n) returns "healthy".
C13_DefaultEndpointNoOp ==
    [][(last'.seq # last.seq /\ last'.id = 0) =>
          /\ writes' = writes
          /\ endpoints' = endpoints
          /\ ~last'.threw
          /\ (last'.op = "recordFailure" => last'.result = "healthy")]_vars

\* recordFailure(0, n) has returned for an n at the unhealthy threshold.
C13_Witness ==
    /\ last.op = "recordFailure"
    /\ last.id = 0
    /\ last.currentFailures + 1 >= FAILURE_THRESHOLD
    /\ last.result = "healthy"
    /\ writes = 0

\* =============================================================== SelectSpec
\* Requests of two providers select an endpoint while the administration
\* enables and disables endpoints and the health tracker marks them.
\* selectEndpoint awaits once, on findEndpointsByProviderId: the query and
\* the synchronous rest of the call are two steps, so that the table can
\* change and another selection can run in between.  Math.random() is a
\* draw d / RandomScale with d in 0..RandomScale-1.
MaxSelections == 3
MaxEdits == 1
RandomScale == 4

SelProcs == {1, 2}
ProviderIds == {1, 2}
\* The endpoints the administration and the health tracker touch in a run.
EditIds == {3, 4}
Strategies == {"failover", "round_robin", "random", "weighted", ""}
\* Exclusion sets name endpoints of provider 1; a call for provider 2 excludes none.
Exclusions == {{}, {2}, {1, 2, 3}}

\* Provider: its own url and key, the multi-endpoint flag, the strategy.
Provider(id, useMultipleEndpoints, strategy) ==
    [id |-> id, url |-> <<"provider-url", id>>, key |-> <<"provider-key", id>>,
     useMultipleEndpoints |-> useMultipleEndpoints, endpointSelectionStrategy |-> strategy]

RECURSIVE SelectRows(_, _)
SelectRows(table, providerId) ==
    IF table = <<>> THEN <<>>
    ELSE IF Head(table).providerId = providerId
    THEN <<Head(table)>> \o SelectRows(Tail(table), providerId)
    ELSE SelectRows(Tail(table), providerId)

\* Insert a row behind the rows whose priority is not greater.
RECURSIVE InsertByPriority(_, _)
InsertByPriority(sorted, row) ==
    IF sorted = <<>> THEN <<row>>
    ELSE IF Head(sorted).priority <= row.priority
    THEN <<Head(sorted)>> \o InsertByPriority(Tail(sorted), row)
    ELSE <<row>> \o sorted

RECURSIVE SortByPriority(_)
SortByPriority(rows) ==
    IF rows = <<>> THEN <<>>
    ELSE InsertByPriority(SortByPriority(SubSeq(rows, 1, Len(rows) - 1)), rows[Len(rows)])

\* findEndpointsByProviderId: WHERE provider_id = providerId ORDER BY priority
\* ASC; rows of equal priority come in the order the table holds them.
findEndpointsByProviderId(table, providerId) == SortByPriority(SelectRows(table, providerId))

DefaultEndpoint_ProviderId(provider) ==
    [id |-> provider.id, url |-> provider.url, apiKey |-> provider.key, priority |-> 0,
     weight |-> 1, healthStatus |-> "healthy", consecutiveFailures |-> 0, isNull |-> FALSE]
\* The default endpoint returned when multi-endpoint mode is off.
DefaultEndpoint(provider) ==
    [id |-> 0, url |-> provider.url, apiKey |-> provider.key, priority |-> 0, weight |-> 1,
     healthStatus |-> "healthy", consecutiveFailures |-> 0, isNull |-> FALSE]

NullEndpoint ==
    [id |-> -1, url |-> <<>>, apiKey |-> <<>>, priority |-> 0, weight |-> 0,
     healthStatus |-> "none", consecutiveFailures |-> 0, isNull |-> TRUE]

\* .map: the row with apiKey: ep.apiKey || provider.key
Resolve(ep, provider) ==
    [id |-> ep.id, url |-> ep.url,
     apiKey |-> IF ep.apiKey # NullKey THEN ep.apiKey ELSE provider.key,
     priority |-> ep.priority, weight |-> ep.weight, healthStatus |-> ep.healthStatus,
     consecutiveFailures |-> ep.consecutiveFailures, isNull |-> FALSE]

Available_IgnoreHealth(ep, excludeEndpointIds) ==
    ep.isEnabled /\ ep.id \notin excludeEndpointIds
Available(ep, excludeEndpointIds) ==
    ep.isEnabled /\ ep.healthStatus # "unhealthy" /\ ep.id \notin excludeEndpointIds

RECURSIVE availableEndpoints(_, _, _)
availableEndpoints(allEndpoints, provider, excludeEndpointIds) ==
    IF allEndpoints = <<>> THEN <<>>
    ELSE LET rest == availableEndpoints(Tail(allEndpoints), provider, excludeEndpointIds)
         IN  IF Available(Head(allEndpoints), excludeEndpointIds)
             THEN <<Resolve(Head(allEndpoints), provider)>> \o rest
             ELSE rest

selectFailover_Last(eps) == SortByPriority(eps)[Len(eps)]
selectFailover(eps) == SortByPriority(eps)[1]

\* roundRobinIndex.get(providerId) || 0
CursorOf(rr, providerId) == IF providerId \in DOMAIN rr THEN rr[providerId] ELSE 0

CursorSet(rr, providerId, value) ==
    [q \in DOMAIN rr \cup {providerId} |-> IF q = providerId THEN value ELSE rr[q]]

selectRoundRobin_Stuck(rr, providerId, eps) ==
    [selected |-> eps[(CursorOf(rr, providerId) % Len(eps)) + 1], rr |-> rr]
selectRoundRobin(rr, providerId, eps) ==
    LET currentIndex == CursorOf(rr, providerId)
    IN  [selected |-> eps[(currentIndex % Len(eps)) + 1],
         rr |-> CursorSet(rr, providerId, currentIndex + 1)]

\* Math.floor(Math.random() * endpoints.length)
selectRandom(eps, d) == eps[((d * Len(eps)) \div RandomScale) + 1]

RECURSIVE totalWeight(_)
totalWeight(eps) == IF eps = <<>> THEN 0 ELSE Head(eps).weight + totalWeight(Tail(eps))

\* The loop of selectWeighted on what is left of random, in units of
\* 1 / RandomScale.
StopsAt_Strict(random) == random < 0
StopsAt(random) == random <= 0

RECURSIVE WeightedWalk(_, _, _)
WeightedWalk(eps, i, random) ==
    IF i > Len(eps) THEN [selected |-> eps[Len(eps)], fallback |-> TRUE]
    ELSE LET left == random - eps[i].weight * RandomScale
         IN  IF StopsAt(left) THEN [selected |-> eps[i], fallback |-> FALSE]
             ELSE WeightedWalk(eps, i + 1, left)

\* random = Math.random() * totalWeight
selectWeighted(eps, d) == WeightedWalk(eps, 1, d * totalWeight(eps))

\* selectEndpoint from the filter on, given the rows the query returned.
selectEndpointFrom(rr, provider, allEndpoints, excludeEndpointIds, d) ==
    LET eps == availableEndpoints(allEndpoints, provider, excludeEndpointIds)
        strategy == IF provider.endpointSelectionStrategy = "" THEN "failover"
                    ELSE provider.endpointSelectionStrategy
    IN  IF Len(eps) = 0 THEN [result |-> NullEndpoint, rr |-> rr, fallback |-> FALSE]
        ELSE IF strategy = "failover"
        THEN [result |-> selectFailover(eps), rr |-> rr, fallback |-> FALSE]
        ELSE IF strategy = "round_robin"
        THEN LET r == selectRoundRobin(rr, provider.id, eps)
             IN  [result |-> r.selected, rr |-> r.rr, fallback |-> FALSE]
        ELSE IF strategy = "random"
        THEN [result |-> selectRandom(eps, d), rr |-> rr, fallback |-> FALSE]
        ELSE IF strategy = "weighted"
        THEN LET r == selectWeighted(eps, d)
             IN  [result |-> r.selected, rr |-> rr, fallback |-> r.fallback]
        ELSE [result |-> selectFailover(eps), rr |-> rr, fallback |-> FALSE]

SelIdle ==
    [pc |-> "idle", provider |-> 0, exclude |-> {}, all |-> <<>>, read |-> FALSE,
     result |-> NullEndpoint, d |-> 0, fallback |-> FALSE, rrBefore |-> << >>,
     rrAfter |-> << >>]

Drawn(strategy) == strategy \in {"random", "weighted"}

SelectInit ==
    /\ clock = 0
    /\ ticks = 0
    /\ zsetData = << >>
    /\ tracked = <<>>
    /\ last = NoCall
    /\ lastGet = [k \in WindowKeys |-> NoGet]
    /\ wkey = NoKey
    /\ nTrack = 0
    /\ proc = [p \in SelProcs |-> SelIdle]
    /\ rwMutex = NoHolder
    /\ stMutex = NoHolder
    /\ status = "ready"
    /\ mapData = << >>
    /\ \E strategy \in Strategies, multi \in BOOLEAN :
         /\ cfg = [type |-> "providers",
                   providers |-> [id \in ProviderIds |->
                       Provider(id, IF id = 1 THEN multi ELSE TRUE, strategy)]]
         /\ \E tie \in BOOLEAN, heavy \in BOOLEAN :
              /\ tie => strategy \in {"failover", ""}
              /\ heavy => strategy = "weighted"
              /\ endpoints =
                   <<[Endpoint(1, 1, IF tie THEN 1 ELSE 5, IF heavy THEN 2 ELSE 1)
                         EXCEPT !.healthStatus = "healthy", !.apiKey = <<"key", 1>>],
                     [Endpoint(2, 1, 1, 1) EXCEPT !.healthStatus = "healthy"],
                     [Endpoint(3, 1, 3, 1) EXCEPT !.healthStatus = "healthy"],
                     [Endpoint(4, 2, 1, 1) EXCEPT !.healthStatus = "healthy"]>>
    /\ roundRobinIndex = << >>
    /\ writes = 0

SelectFrame ==
    UNCHANGED <<clock, ticks, zsetData, last, lastGet, wkey, rwMutex, stMutex, status,
                mapData, cfg>>

\* updateEndpoint(id, { is_enabled }) by the administration.
SetEnabled ==
    \E id \in EditIds :
        /\ writes < MaxEdits
        /\ endpoints' = [endpoints EXCEPT ![RowOf(endpoints, id)].isEnabled = ~@]
        /\ writes' = writes + 1
        /\ UNCHANGED <<tracked, nTrack, proc, roundRobinIndex>>
        /\ SelectFrame

\* recordFailure for a request that met the failure threshold.
MarkUnhealthy ==
    \E id \in EditIds :
        LET r == recordFailure(endpoints, id, FAILURE_THRESHOLD - 1)
        IN  /\ writes < MaxEdits
            /\ endpoints' = r.table
            /\ writes' = writes + 1
            /\ UNCHANGED <<tracked, nTrack, proc, roundRobinIndex>>
            /\ SelectFrame

\* selectEndpoint(provider, excludeEndpointIds) up to its await.
SelectCall(p) ==
    \E providerId \in ProviderIds, excludeEndpointIds \in Exclusions :
        LET provider == cfg.providers[providerId]
            c == [SelIdle EXCEPT !.provider = providerId, !.exclude = excludeEndpointIds,
                                 !.rrBefore = roundRobinIndex, !.rrAfter = roundRobinIndex]
        IN  /\ proc[p].pc \in {"idle", "done"}
            /\ \A q \in SelProcs : q < p => proc[q].pc # "idle"
            /\ providerId # 1 => excludeEndpointIds = {}
            /\ nTrack < MaxSelections
            /\ nTrack' = nTrack + 1
            /\ proc' = [proc EXCEPT ![p] =
                 IF ~provider.useMultipleEndpoints
                 THEN [c EXCEPT !.pc = "done", !.result = DefaultEndpoint(provider)]
                 ELSE [c EXCEPT !.pc = "query"]]
            /\ UNCHANGED <<tracked, endpoints, roundRobinIndex, writes>>
            /\ SelectFrame

\* await findEndpointsByProviderId(provider.id)
SelectQuery(p) ==
    /\ proc[p].pc = "query"
    /\ proc' = [proc EXCEPT ![p] =
         [proc[p] EXCEPT !.pc = "pick", !.read = TRUE,
                         !.all = findEndpointsByProviderId(endpoints, proc[p].provider)]]
    /\ UNCHANGED <<tracked, nTrack, endpoints, roundRobinIndex, writes>>
    /\ SelectFrame

Ids(eps) == [i \in 1..Len(eps) |-> eps[i].id]

\* The filter, the strategy and the return.  tracked logs the round-robin
\* selections that returned an endpoint, in order.
SelectPick(p) ==
    LET c == proc[p]
        provider == cfg.providers[c.provider]
        strategy == provider.endpointSelectionStrategy
    IN  /\ c.pc = "pick"
        /\ \E d \in IF Drawn(strategy) /\ availableEndpoints(c.all, provider, c.exclude) # <<>>
                     THEN 0..(RandomScale - 1) ELSE {0} :
             LET r == selectEndpointFrom(roundRobinIndex, provider, c.all, c.exclude, d)
                 eps == availableEndpoints(c.all, provider, c.exclude)
             IN  /\ proc' = [proc EXCEPT ![p] =
                       [c EXCEPT !.pc = "done", !.result = r.result, !.d = d,
                                 !.fallback = r.fallback, !.rrBefore = roundRobinIndex,
                                 !.rrAfter = r.rr]]
                 /\ roundRobinIndex' = r.rr
                 /\ tracked' = IF strategy = "round_robin" /\ ~r.result.isNull
                               THEN Append(tracked, [provider |-> c.provider, filtered |-> Ids(eps),
                                                     selected |-> r.result.id,
                                                     cursor |-> CursorOf(r.rr, c.provider)])
                               ELSE tracked
        /\ UNCHANGED <<nTrack, endpoints, writes>>
        /\ SelectFrame

SelectNext ==
    \/ SetEnabled
    \/ MarkUnhealthy
    \/ \E p \in SelProcs :
         \/ SelectCall(p)
         \/ SelectQuery(p)
         \/ SelectPick(p)

SelectSpec == SelectInit /\ [][SelectNext]_vars

\* ------------------------------------------------------------------- C14
Returned == {p \in DOMAIN proc : proc[p].pc = "done" /\ proc[p].read}

\* The rows, among those the call read, that it may return.
Eligible(c) ==
    {i \in 1..Len(c.all) :
        /\ c.all[i].isEnabled
        /\ c.all[i].healthStatus # "unhealthy"
        /\ c.all[i].id \notin c.exclude}

\* C14: in multi-endpoint mode, under every strategy, the endpoint a call
\* returns is a row of its provider that, in the table as the call read it,
\* is enabled, not unhealthy and not excluded; the call returns null exactly
\* when no row it read is such.
C14_SelectsOnlyAvailable ==
    \A p \in Returned :
        LET c == proc[p]
        IN  /\ c.result.isNull <=> Eligible(c) = {}
            /\ ~c.result.isNull =>
                 \E i \in Eligible(c) :
                     /\ c.all[i].id = c.result.id
                     /\ c.all[i].providerId = c.provider

\* A call has returned an endpoint although it read an unhealthy row and was
\* told to exclude another.
C14_Witness ==
    \E p \in Returned :
        /\ ~proc[p].result.isNull
        /\ proc[p].exclude = {2}
        /\ \E i \in 1..Len(proc[p].all) : proc[p].all[i].healthStatus = "unhealthy"

\* ------------------------------------------------------------------- C15
IsFailover == cfg.providers[1].endpointSelectionStrategy = "failover"

AllAvailable(c) == Eligible(c) = {i \in 1..Len(c.all) : c.all[i].id \notin c.exclude}

PriorityOfId(c, id) == LET i == CHOOSE j \in 1..Len(c.all) : c.all[j].id = id IN c.all[i].priority

IsRoundRobin == cfg.providers[1].endpointSelectionStrategy = "round_robin"

RECURSIVE SelectionsOf(_, _)
SelectionsOf(log, providerId) ==
    IF log = <<>> THEN <<>>
    ELSE IF Head(log).provider = providerId
    THEN <<Head(log)>> \o SelectionsOf(Tail(log), providerId)
    ELSE SelectionsOf(Tail(log), providerId)

\* C16: under round_robin the k-th selection of a provider that returned an
\* endpoint (k = 0, 1, ...) returned filtered[k mod len] of the list filtered
\* at that call and left the provider's cursor at k + 1, whatever other
\* selections, of this or another provider, ran in between; the cursor of a
\* provider equals the number of its selections that returned an endpoint;
\* len selections in a row over the same filtered list return len different
\* endpoints.
C16_RoundRobinCursor ==
    IsRoundRobin =>
        \A providerId \in ProviderIds :
            LET sels == SelectionsOf(tracked, providerId)
            IN  /\ CursorOf(roundRobinIndex, providerId) = Len(sels)
                /\ \A j \in 1..Len(sels) :
                     /\ sels[j].selected = sels[j].filtered[((j - 1) % Len(sels[j].filtered)) + 1]
                     /\ sels[j].cursor = j
                /\ \A j \in 1..Len(sels) :
                     LET len == Len(sels[j].filtered)
                     IN  (/\ j + len - 1 <= Len(sels)
                          /\ \A k \in j..(j + len - 1) : sels[k].filtered = sels[j].filtered) =>
                             {sels[k].selected : k \in j..(j + len - 1)} =
                                 {sels[j].filtered[i] : i \in 1..len}

\* Three selections of provider 1 over the same three endpoints have
\* returned one each.
C16_Witness ==
    /\ IsRoundRobin
    /\ Len(SelectionsOf(tracked, 1)) = 3
    /\ \A j \in 1..3 : SelectionsOf(tracked, 1)[j].filtered = <<2, 3, 1>>
    /\ roundRobinIndex[1] = 3

\* ------------------------------------------------------------------- C17
IsWeighted == cfg.providers[1].endpointSelectionStrategy = "weighted"

\* Sum of the weights of the eligible rows at positions up to i.
RECURSIVE CumulativeWeight(_, _)
CumulativeWeight(c, i) ==
    IF i = 0 THEN 0
    ELSE CumulativeWeight(c, i - 1) + (IF i \in Eligible(c) THEN c.all[i].weight ELSE 0)

\* C17: for the draw r = (d / RandomScale) * total weight, weighted selection
\* over a non-empty filtered list with weights >= 1 returns the first
\* endpoint in list order whose cumulative weight is >= r; the endpoint is
\* one of the filtered list and the fallback behind the loop is not reached.
C17_WeightedFirstCumulative ==
    IsWeighted =>
        \A p \in Returned :
            LET c == proc[p]
                total == CumulativeWeight(c, Len(c.all))
                reaches == {i \in Eligible(c) :
                               CumulativeWeight(c, i) * RandomScale >= c.d * total}
            IN  Eligible(c) # {} =>
                    /\ ~c.fallback
                    /\ reaches # {}
                    /\ \E i \in reaches :
                         /\ \A j \in reaches : i <= j
                         /\ c.result.id = c.all[i].id

\* A draw that equals the cumulative weight of the first of three endpoints
\* of weights 1, 1, 2 has returned that first endpoint.
C17_Witness ==
    /\ IsWeighted
    /\ \E p \in Returned :
         /\ Cardinality(Eligible(proc[p])) = 3
         /\ CumulativeWeight(proc[p], 3) = 4
         /\ proc[p].d = 1
         /\ proc[p].result.id = proc[p].all[1].id

\* ------------------------------------------------------------------- C18
\* C18: a selectEndpoint step for a provider whose multi-endpoint flag is
\* off returns at once the endpoint with id 0, the provider's url and key,
\* health healthy and 0 failures, whatever the strategy, the exclusion set
\* and the table; it does not query the table and leaves every round-robin
\* cursor and every row as they were.
C18_SingleEndpointDefault ==
    [][\A p \in SelProcs :
          (proc'[p] # proc[p] /\ ~cfg.providers[proc'[p].provider].useMultipleEndpoints) =>
              /\ proc'[p].pc = "done"
              /\ ~proc'[p].read
              /\ proc'[p].result.id = 0
              /\ proc'[p].result.url = <<"provider-url", proc'[p].provider>>
              /\ proc'[p].result.apiKey = <<"provider-key", proc'[p].provider>>
              /\ proc'[p].result.healthStatus = "healthy"
              /\ proc'[p].result.consecutiveFailures = 0
              /\ ~proc'[p].result.isNull
              /\ roundRobinIndex' = roundRobinIndex
              /\ endpoints' = endpoints]_vars

\* Under round_robin, with a cursor already advanced for provider 2 and a
\* row disabled, a call for provider 1 (flag off) excluding every endpoint
\* has returned the default endpoint.
C18_Witness ==
    /\ IsRoundRobin
    /\ ~cfg.providers[1].useMultipleEndpoints
    /\ CursorOf(roundRobinIndex, 2) >= 1
    /\ \E i \in 1..Len(endpoints) : ~endpoints[i].isEnabled
    /\ \E p \in SelProcs :
         /\ proc[p].pc = "done"
         /\ proc[p].provider = 1
         /\ proc[p].exclude = {1, 2, 3}
         /\ proc[p].result.id = 0

\* ============================================================ MultiplierSpec
\* calculateFinalMultiplier on the cost rules of a provider.  Strings are
\* sequences of characters; a number that need not be an integer is a
\* fraction [num, den] with den > 0, compared by cross-multiplication; a Date
\* is [day, minutes]: the UTC day of the week as getDay() gives it (0 =
\* Sunday) and the UTC minute of that day.
HoursPerDay == 24
MinutesPerHour == 60
DaysPerWeek == 7

Frac(num, den) == [num |-> num, den |-> den]
FracMul(a, b) == Frac(a.num * b.num, a.den * b.den)
FracEq(a, b) == a.num * b.den = b.num * a.den

Digits == <<"0", "1", "2", "3", "4", "5", "6", "7", "8", "9">>
IsDigit(ch) == \E i \in 1..Len(Digits) : Digits[i] = ch
DigitValue(ch) == (CHOOSE i \in 1..Len(Digits) : Digits[i] = ch) - 1

\* Number("07") = 7 for a string of digits.
RECURSIVE Number(_)
Number(str) ==
    IF str = <<>> THEN 0
    ELSE Number(SubSeq(str, 1, Len(str) - 1)) * 10 + DigitValue(str[Len(str)])

RECURSIVE Pow10(_)
Pow10(n) == IF n = 0 THEN 1 ELSE 10 * Pow10(n - 1)

RECURSIVE DigitPrefix(_)
DigitPrefix(str) ==
    IF str = <<>> \/ ~IsDigit(Head(str)) THEN <<>>
    ELSE <<Head(str)>> \o DigitPrefix(Tail(str))

\* parseFloat of a numeric column value: digits, then "." and digits if any.
parseFloat(str) ==
    LET whole == DigitPrefix(str)
        rest == SubSeq(str, Len(whole) + 1, Len(str))
        frac == IF rest # <<>> /\ Head(rest) = "." THEN DigitPrefix(Tail(rest)) ELSE <<>>
    IN  Frac(Number(whole) * Pow10(Len(frac)) + Number(frac), Pow10(Len(frac)))

Upper == <<"C", "G", "P", "T", "O", "S">>
LowerOf == <<"c", "g", "p", "t", "o", "s">>
\* the "i" flag of the regular expression
Lower(ch) ==
    IF \E i \in 1..Len(Upper) : Upper[i] = ch
    THEN LowerOf[CHOOSE i \in 1..Len(Upper) : Upper[i] = ch]
    ELSE ch

\* matchWildcard: ^pattern$ with * as .* and ? as . and the rest literal.
RECURSIVE matchWildcard(_, _)
matchWildcard(pattern, text) ==
    IF pattern = <<>> THEN text = <<>>
    ELSE IF Head(pattern) = "*"
    THEN matchWildcard(Tail(pattern), text)
         \/ (text # <<>> /\ matchWildcard(pattern, Tail(text)))
    ELSE IF Head(pattern) = "?"
    THEN text # <<>> /\ matchWildcard(Tail(pattern), Tail(text))
    ELSE /\ text # <<>>
         /\ Lower(Head(pattern)) = Lower(Head(text))
         /\ matchWildcard(Tail(pattern), Tail(text))

\* /^([0-1]\d|2[0-3]):([0-5]\d)$/
validateTimeFormat(timeStr) ==
    /\ Len(timeStr) = 5
    /\ \/ (timeStr[1] \in {"0", "1"} /\ IsDigit(timeStr[2]))
       \/ (timeStr[1] = "2" /\ timeStr[2] \in {"0", "1", "2", "3"})
    /\ timeStr[3] = ":"
    /\ timeStr[4] \in {"0", "1", "2", "3", "4", "5"}
    /\ IsDigit(timeStr[5])

\* const [hour, min] = time.split(":").map(Number); hour * 60 + min
MinutesOf(timeStr) ==
    Number(SubSeq(timeStr, 1, 2)) * MinutesPerHour + Number(SubSeq(timeStr, 4, 5))

\* The time zones the runtime knows, with their offset from UTC in minutes.
Utc == "UTC"
TimezoneOffsets == [z \in {"UTC", "Asia/Shanghai", "America/Bogota"} |->
                       IF z = "UTC" THEN 0
                       ELSE IF z = "Asia/Shanghai" THEN 8 * MinutesPerHour
                       ELSE -5 * MinutesPerHour]

isValidTimezone(timezone) == timezone \in DOMAIN TimezoneOffsets

\* new Date(currentTime.toLocaleString("en-US", { timeZone })): the wall
\* clock of the zone, read back with getDay(), getHours(), getMinutes().
localTime(currentTime, timezone) ==
    LET week == DaysPerWeek * HoursPerDay * MinutesPerHour
        t == (currentTime.day * HoursPerDay * MinutesPerHour + currentTime.minutes
              + TimezoneOffsets[timezone] + week) % week
    IN  [day |-> t \div (HoursPerDay * MinutesPerHour),
         minutes |-> t % (HoursPerDay * MinutesPerHour)]

InPeriod_EndInclusive(period, currentMinutes) ==
    LET startMinutes == MinutesOf(period.startTime)
        endMinutes == MinutesOf(period.endTime)
    IN  IF startMinutes <= endMinutes
        THEN currentMinutes >= startMinutes /\ currentMinutes <= endMinutes
        ELSE currentMinutes >= startMinutes \/ currentMinutes <= endMinutes

InPeriod(period, currentMinutes) ==
    LET startMinutes == MinutesOf(period.startTime)
        endMinutes == MinutesOf(period.endTime)
    IN  IF startMinutes <= endMinutes
        THEN currentMinutes >= startMinutes /\ currentMinutes < endMinutes
        ELSE currentMinutes >= startMinutes \/ currentMinutes < endMinutes

WellFormed(period) ==
    validateTimeFormat(period.startTime) /\ validateTimeFormat(period.endTime)

\* The periods the loop gets to: a malformed one is passed over by continue.
LoopReaches_UntilMalformed(timePeriods) ==
    {i \in 1..Len(timePeriods) : \A j \in 1..i : WellFormed(timePeriods[j])}
LoopReaches(timePeriods) == 1..Len(timePeriods)

\* weekdays is a set; {} stands for null and for the empty array.
isWithinTimePeriod(timePeriods, currentTime, timezone) ==
    IF timePeriods = <<>> THEN FALSE
    ELSE LET zone == IF isValidTimezone(timezone) THEN timezone ELSE Utc
             local == localTime(currentTime, zone)
             currentWeekday == IF local.day = 0 THEN 7 ELSE local.day
         IN  \E i \in LoopReaches(timePeriods) :
                 /\ validateTimeFormat(timePeriods[i].startTime)
                 /\ validateTimeFormat(timePeriods[i].endTime)
                 /\ timePeriods[i].weekdays # {} => currentWeekday \in timePeriods[i].weekdays
                 /\ InPeriod(timePeriods[i], local.minutes)

NullPattern == <<>>
NoPeriods == <<>>

RuleMatches(rule, context) ==
    IF rule.ruleType = "model"
    THEN rule.modelPattern # NullPattern /\ matchWildcard(rule.modelPattern, context.model)
    ELSE IF rule.ruleType = "time_period"
    THEN rule.timePeriods # NoPeriods
         /\ isWithinTimePeriod(rule.timePeriods, context.requestTime, context.timezone)
    ELSE FALSE

MatchesEnabled_Any(rule, context) == RuleMatches(rule, context)
MatchesEnabled(rule, context) == rule.isEnabled /\ RuleMatches(rule, context)

RECURSIVE matchedRules(_, _)
matchedRules(rules, context) ==
    IF rules = <<>> THEN <<>>
    ELSE IF MatchesEnabled(Head(rules), context)
    THEN <<Head(rules)>> \o matchedRules(Tail(rules), context)
    ELSE matchedRules(Tail(rules), context)

AppliedRule(rule) ==
    [ruleId |-> rule.id, ruleName |-> rule.name, ruleType |-> rule.ruleType,
     multiplier |-> parseFloat(rule.multiplier), priority |-> rule.priority]

\* Insert a rule behind the rules whose priority is not smaller.
RECURSIVE InsertByPriorityDesc(_, _)
InsertByPriorityDesc(sorted, rule) ==
    IF sorted = <<>> THEN <<rule>>
    ELSE IF Head(sorted).priority >= rule.priority
    THEN <<Head(sorted)>> \o InsertByPriorityDesc(Tail(sorted), rule)
    ELSE <<rule>> \o sorted

\* [...matchedRules].sort((a, b) => b.priority - a.priority)
RECURSIVE SortByPriorityDesc(_)
SortByPriorityDesc(rules) ==
    IF rules = <<>> THEN <<>>
    ELSE InsertByPriorityDesc(SortByPriorityDesc(SubSeq(rules, 1, Len(rules) - 1)),
                              rules[Len(rules)])

RECURSIVE combinedMultiplier(_)
combinedMultiplier(rules) ==
    IF rules = <<>> THEN Frac(1, 1)
    ELSE FracMul(combinedMultiplier(SubSeq(rules, 1, Len(rules) - 1)),
                 parseFloat(rules[Len(rules)].multiplier))

HighestOf_Lowest(matched) == SortByPriorityDesc(matched)[Len(matched)]
HighestOf(matched) == SortByPriorityDesc(matched)[1]

calculateFinalMultiplier(baseMultiplier, rules, context, strategy) ==
    LET matched == matchedRules(rules, context)
    IN  IF Len(matched) = 0
        THEN [finalMultiplier |-> baseMultiplier, appliedRules |-> <<>>,
              baseMultiplier |-> baseMultiplier]
        ELSE IF strategy = "highest_priority"
        THEN LET highestPriorityRule == HighestOf(matched)
             IN  [finalMultiplier |->
                      FracMul(baseMultiplier, parseFloat(highestPriorityRule.multiplier)),
                  appliedRules |-> <<AppliedRule(highestPriorityRule)>>,
                  baseMultiplier |-> baseMultiplier]
        ELSE [finalMultiplier |-> FracMul(baseMultiplier, combinedMultiplier(matched)),
              appliedRules |-> [i \in 1..Len(matched) |-> AppliedRule(matched[i])],
              baseMultiplier |-> baseMultiplier]

\* ---- the inputs of a run
ModelSonnet == <<"c", "l", "a", "u", "d", "e", "-", "3", "-", "5", "-", "s", "o", "n", "n", "e", "t">>
ModelSonnetUpper == <<"C", "l", "a", "u", "d", "e", "-", "3", "-", "5", "-", "S", "o", "n", "n", "e", "t">>
ModelOpus == <<"c", "l", "a", "u", "d", "e", "-", "3", "-", "o", "p", "u", "s">>
ModelGpt4o == <<"g", "p", "t", "-", "4", "o">>
PatternClaude35 == <<"c", "l", "a", "u", "d", "e", "-", "3", "-", "5", "-", "*">>
PatternGpt4 == <<"g", "p", "t", "-", "4", "?">>
Time2200 == <<"2", "2", ":", "0", "0">>
Time0600 == <<"0", "6", ":", "0", "0">>
OnePointFive == <<"1", ".", "5">>
TwoPointZero == <<"2", ".", "0">>
Half == <<"0", ".", "5">>

MaxPriority == 3
MaxRuleEdits == 2

RuleIds == {1, 2, 3}
Models == {ModelSonnet, ModelSonnetUpper, ModelOpus, ModelGpt4o}
Timezones == {"UTC", "Asia/Shanghai", "Mars/Olympus"}
MultiplierStrategies == {"multiply", "highest_priority"}
BaseMultipliers == {Frac(1, 1), Frac(6, 5)}
\* Saturday and Sunday, at 05:59, 06:00, 12:00, 15:00, 22:00 and 23:00 UTC
RequestTimes ==
    [day : {0, 6},
     minutes : {5 * MinutesPerHour + 59, 6 * MinutesPerHour, 12 * MinutesPerHour,
                15 * MinutesPerHour, 22 * MinutesPerHour, 23 * MinutesPerHour}]

CostRule(id, ruleType, name, multiplier, priority, modelPattern, timePeriods) ==
    [id |-> id, providerId |-> 1, ruleType |-> ruleType, name |-> name,
     multiplier |-> multiplier, priority |-> priority, modelPattern |-> modelPattern,
     timePeriods |-> timePeriods, isEnabled |-> TRUE]

ModelRule == CostRule(1, "model", "sonnet", OnePointFive, 1, PatternClaude35, NoPeriods)
OvernightRule(weekdays) ==
    CostRule(2, "time_period", "overnight", TwoPointZero, 2, NullPattern,
             <<[startTime |-> Time2200, endTime |-> Time0600, weekdays |-> weekdays]>>)
GptRule(priority) == CostRule(3, "model", "gpt", Half, priority, PatternGpt4, NoPeriods)
CatchAllRule(priority) ==
    CostRule(3, "model", "all", Half, priority, <<"*">>, NoPeriods)

NoCalculation ==
    [op |-> "none", rules |-> <<>>, context |-> <<>>, strategy |-> "",
     result |-> <<>>]

\* cfg.rules is the rules argument of the next call, in the caller's order.
MultiplierInit ==
    /\ clock = 0
    /\ ticks = 0
    /\ zsetData = << >>
    /\ tracked = <<>>
    /\ last = NoCalculation
    /\ lastGet = [k \in WindowKeys |-> NoGet]
    /\ wkey = NoKey
    /\ nTrack = 0
    /\ proc = << >>
    /\ rwMutex = NoHolder
    /\ stMutex = NoHolder
    /\ status = "ready"
    /\ mapData = << >>
    /\ NoEndpoints
    /\ \E weekdays \in {{}, {7}}, priority \in 1..MaxPriority, reversed \in BOOLEAN,
          third \in {"gpt", "all"} :
         LET r3 == IF third = "gpt" THEN GptRule(priority) ELSE CatchAllRule(priority)
         IN  cfg = [type |-> "costRules",
                    rules |-> IF reversed
                              THEN <<r3, OvernightRule(weekdays), ModelRule>>
                              ELSE <<ModelRule, OvernightRule(weekdays), r3>>]

MultiplierFrame ==
    UNCHANGED <<clock, ticks, zsetData, tracked, lastGet, wkey, proc, rwMutex, stMutex,
                status, mapData, epVars>>

\* updateCostRule(ruleId, {isEnabled}) by an administrator, before the call
\* that a run follows.
UpdateCostRule ==
    \E ruleId \in RuleIds, isEnabled \in BOOLEAN :
        /\ nTrack < MaxRuleEdits
        /\ last.op = "none"
        /\ \E i \in 1..Len(cfg.rules) :
             /\ cfg.rules[i].id = ruleId
             /\ cfg.rules[i].isEnabled # isEnabled
             /\ cfg' = [cfg EXCEPT !.rules[i].isEnabled = isEnabled]
        /\ nTrack' = nTrack + 1
        /\ UNCHANGED last
        /\ MultiplierFrame

CalculateFinalMultiplier ==
    \E baseMultiplier \in BaseMultipliers, model \in Models, requestTime \in RequestTimes,
       timezone \in Timezones, strategy \in MultiplierStrategies :
        LET context == [model |-> model, requestTime |-> requestTime, timezone |-> timezone]
        IN  /\ last.op = "none"
            /\ last' = [op |-> "calculateFinalMultiplier",
                        rules |-> cfg.rules, context |-> context, strategy |-> strategy,
                        result |-> calculateFinalMultiplier(baseMultiplier, cfg.rules,
                                                            context, strategy)]
            /\ UNCHANGED <<cfg, nTrack>>
            /\ MultiplierFrame

MultiplierNext ==
    \/ UpdateCostRule
    \/ CalculateFinalMultiplier

MultiplierSpec == MultiplierInit /\ [][MultiplierNext]_vars

\* ---- what the calls are judged against
Calculated(strategy) == last.op = "calculateFinalMultiplier" /\ last.strategy = strategy

\* The positions of the enabled rules of the call that match its context.
MatchingRules ==
    {i \in 1..Len(last.rules) :
        last.rules[i].isEnabled /\ RuleMatches(last.rules[i], last.context)}

RECURSIVE ProductOf(_)
ProductOf(S) ==
    IF S = {} THEN Frac(1, 1)
    ELSE LET i == CHOOSE x \in S : TRUE
         IN  FracMul(parseFloat(last.rules[i].multiplier), ProductOf(S \ {i}))

AppliedIds == {last.result.appliedRules[j].ruleId : j \in DOMAIN last.result.appliedRules}

\* The wall clock of the context's zone shows 23:00.
LocalIs2300 ==
    /\ isValidTimezone(last.context.timezone)
    /\ localTime(last.context.requestTime, last.context.timezone).minutes
           = 23 * MinutesPerHour

\* The example: the model rule x1.5 and the overnight rule x2.0 are the two
\* rules in force (the third is disabled), every day, for claude-3-5-sonnet.
ExampleCall ==
    /\ last.context.model = ModelSonnet
    /\ LocalIs2300
    /\ \A i \in 1..Len(last.rules) :
         /\ last.rules[i].id = 3 => ~last.rules[i].isEnabled
         /\ last.rules[i].id # 3 => last.rules[i].isEnabled
         /\ last.rules[i].id = 2 => last.rules[i].timePeriods[1].weekdays = {}

\* ------------------------------------------------------------------- C19
\* C19: under strategy multiply the result is the base multiplier times the
\* product of the multipliers of the enabled rules that match the context (1
\* when none does), appliedRules lists exactly those rules, once each, and
\* the example (x1.5 and x2.0 matching at 23:00 local) gives base x 3.
C19_MultiplyProduct ==
    Calculated("multiply") =>
        /\ FracEq(last.result.finalMultiplier,
                  FracMul(last.result.baseMultiplier, ProductOf(MatchingRules)))
        /\ AppliedIds = {last.rules[i].id : i \in MatchingRules}
        /\ Len(last.result.appliedRules) = Cardinality(MatchingRules)
        /\ ExampleCall =>
               FracEq(last.result.finalMultiplier,
                      FracMul(last.result.baseMultiplier, Frac(3, 1)))

\* A multiply call where two rules apply and a disabled rule that matches
\* the context is left out.
C19_Witness ==
    /\ Calculated("multiply")
    /\ Len(last.result.appliedRules) = 2
    /\ \E i \in 1..Len(last.rules) :
         ~last.rules[i].isEnabled /\ RuleMatches(last.rules[i], last.context)
    /\ ~FracEq(last.result.finalMultiplier, last.result.baseMultiplier)

\* ------------------------------------------------------------------- C20
\* C20: under strategy highest_priority the result is the base multiplier
\* times the multiplier of one enabled matching rule whose priority no other
\* enabled matching rule exceeds, appliedRules holds that rule alone, the
\* result is the base multiplier with no applied rule when none matches, and
\* the example (priority 1 x1.5, priority 2 x2.0, both matching) gives
\* base x 2.
C20_HighestPriorityOnly ==
    Calculated("highest_priority") =>
        /\ MatchingRules = {} =>
               /\ last.result.finalMultiplier = last.result.baseMultiplier
               /\ last.result.appliedRules = <<>>
        /\ MatchingRules # {} =>
               /\ Len(last.result.appliedRules) = 1
               /\ \E i \in MatchingRules :
                    /\ last.result.appliedRules[1].ruleId = last.rules[i].id
                    /\ \A j \in MatchingRules :
                         last.rules[j].priority <= last.rules[i].priority
                    /\ FracEq(last.result.finalMultiplier,
                              FracMul(last.result.baseMultiplier,
                                      parseFloat(last.rules[i].multiplier)))
        /\ ExampleCall =>
               FracEq(last.result.finalMultiplier,
                      FracMul(last.result.baseMultiplier, Frac(2, 1)))

\* A highest_priority call where three rules match with different
\* priorities and the one applied is not the first of the list.
C20_Witness ==
    /\ Calculated("highest_priority")
    /\ Cardinality(MatchingRules) = 3
    /\ \E i, j \in MatchingRules : last.rules[i].priority < last.rules[j].priority
    /\ last.result.appliedRules[1].ruleId # last.rules[1].id

\* ================================================================ PeriodSpec
\* isWithinTimePeriod, and calculateFinalMultiplier with one time_period
\* rule, on lists of periods that hold malformed times and on zones the
\* runtime does not know.
MaxPeriods == 2

Time0900 == <<"0", "9", ":", "0", "0">>
Time1700 == <<"1", "7", ":", "0", "0">>
Time2500 == <<"2", "5", ":", "0", "0">>
Time900 == <<"9", ":", "0", "0">>
NullTime == <<>>

ValidTimes == {Time2200, Time0600, Time0900}
MalformedTimes == {Time2500, Time900, NullTime}
WeekdayLists == {{}, {7}, {1, 5}}
Period(startTime, endTime, weekdays) ==
    [startTime |-> startTime, endTime |-> endTime, weekdays |-> weekdays]
FirstPeriods ==
    {Period(s, e, w) : s \in ValidTimes \union MalformedTimes,
                       e \in ValidTimes \union MalformedTimes, w \in WeekdayLists}
ExtraPeriods == {Period(Time0900, Time1700, {}), Period(Time2500, Time0600, {})}
\* Saturday, Sunday and Monday (UTC)
PeriodTimes ==
    [day : {6, 0, 1},
     minutes : {5 * MinutesPerHour + 59, 6 * MinutesPerHour, 9 * MinutesPerHour,
                16 * MinutesPerHour + 59, 17 * MinutesPerHour, 22 * MinutesPerHour,
                23 * MinutesPerHour}]

\* "x".split(":") on null raises TypeError.
SplitRaises(timeStr) == timeStr = NullTime

\* Whether an exception leaves isWithinTimePeriod: the zone lookups are
\* inside try/catch, the split is reached for validated strings only.
isWithinTimePeriodThrows(timePeriods, currentTime, timezone) ==
    /\ timePeriods # <<>>
    /\ \E i \in LoopReaches(timePeriods) :
         /\ WellFormed(timePeriods[i])
         /\ SplitRaises(timePeriods[i].startTime) \/ SplitRaises(timePeriods[i].endTime)

calculateFinalMultiplierThrows(rules, context) ==
    \E i \in 1..Len(rules) :
        /\ rules[i].isEnabled
        /\ rules[i].ruleType = "time_period"
        /\ rules[i].timePeriods # NoPeriods
        /\ isWithinTimePeriodThrows(rules[i].timePeriods, context.requestTime,
                                    context.timezone)

NoPeriodCall ==
    [op |-> "none", timePeriods |-> <<>>, currentTime |-> <<>>, timezone |-> "",
     result |-> FALSE, threw |-> FALSE]

\* cfg.timePeriods is the timePeriods column of one time_period rule.
PeriodInit ==
    /\ clock = 0
    /\ ticks = 0
    /\ zsetData = << >>
    /\ tracked = <<>>
    /\ last = NoPeriodCall
    /\ lastGet = [k \in WindowKeys |-> NoGet]
    /\ wkey = NoKey
    /\ nTrack = 0
    /\ proc = << >>
    /\ rwMutex = NoHolder
    /\ stMutex = NoHolder
    /\ status = "ready"
    /\ mapData = << >>
    /\ NoEndpoints
    /\ \/ cfg = [type |-> "timePeriods", timePeriods |-> <<>>]
       \/ \E n \in 0..(MaxPeriods - 1), first \in FirstPeriods, front \in BOOLEAN :
            \E rest \in [1..n -> ExtraPeriods] :
                cfg = [type |-> "timePeriods",
                       timePeriods |-> IF front THEN <<first>> \o rest
                                       ELSE rest \o <<first>>]

PeriodFrame ==
    UNCHANGED <<clock, ticks, zsetData, tracked, lastGet, wkey, nTrack, proc, rwMutex,
                stMutex, status, mapData, cfg, epVars>>

IsWithinTimePeriod ==
    \E currentTime \in PeriodTimes, timezone \in Timezones :
        /\ last.op = "none"
        /\ last' = [op |-> "isWithinTimePeriod", timePeriods |-> cfg.timePeriods,
                    currentTime |-> currentTime, timezone |-> timezone,
                    result |-> isWithinTimePeriod(cfg.timePeriods, currentTime, timezone),
                    threw |-> isWithinTimePeriodThrows(cfg.timePeriods, currentTime,
                                                       timezone)]
        /\ PeriodFrame

TimeRule(timePeriods) ==
    CostRule(2, "time_period", "window", TwoPointZero, 2, NullPattern, timePeriods)

\* calculateFinalMultiplier(1, [the time rule], context, "multiply")
CalculateTimeRule ==
    \E requestTime \in PeriodTimes, timezone \in Timezones :
        LET context == [model |-> ModelOpus, requestTime |-> requestTime,
                        timezone |-> timezone]
            rules == <<TimeRule(cfg.timePeriods)>>
        IN  /\ last.op = "none"
            /\ last' = [op |-> "calculateFinalMultiplier", timePeriods |-> cfg.timePeriods,
                        currentTime |-> requestTime, timezone |-> timezone,
                        result |-> calculateFinalMultiplier(Frac(1, 1), rules, context,
                                                            "multiply"),
                        threw |-> calculateFinalMultiplierThrows(rules, context)]
            /\ PeriodFrame

PeriodNext ==
    \/ IsWithinTimePeriod
    \/ CalculateTimeRule

PeriodSpec == PeriodInit /\ [][PeriodNext]_vars

\* ---- what the calls are judged against
MinutesPerDay == HoursPerDay * MinutesPerHour

\* Offset of the zone the call evaluates in: UTC for a zone not known.
EffectiveOffset ==
    IF last.timezone \in DOMAIN TimezoneOffsets THEN TimezoneOffsets[last.timezone] ELSE 0

\* Minutes since Sunday 00:00 UTC of the request's week, on the local clock.
LocalInstant == last.currentTime.day * MinutesPerDay + last.currentTime.minutes
                    + EffectiveOffset

LocalMinuteOfDay == LocalInstant % MinutesPerDay

\* 1 = Monday ... 7 = Sunday
LocalWeekday == (((LocalInstant \div MinutesPerDay) + 6) % DaysPerWeek) + 1

WithoutMalformed(timePeriods) == SelectSeq(timePeriods, WellFormed)

C22_DegradesGracefully ==
    /\ last.op \in {"isWithinTimePeriod", "calculateFinalMultiplier"} => ~last.threw
    /\ last.op = "isWithinTimePeriod" =>
         /\ ~isValidTimezone(last.timezone) =>
                last.result = isWithinTimePeriod(last.timePeriods, last.currentTime, Utc)
         /\ last.result = isWithinTimePeriod(WithoutMalformed(last.timePeriods),
                                             last.currentTime, last.timezone)
    /\ last.op = "calculateFinalMultiplier" =>
         /\ ~isValidTimezone(last.timezone) =>
                last.result = calculateFinalMultiplier(
                                  Frac(1, 1), <<TimeRule(last.timePeriods)>>,
                                  [model |-> ModelOpus, requestTime |-> last.currentTime,
                                   timezone |-> Utc], "multiply")
         /\ last.result = calculateFinalMultiplier(
                              Frac(1, 1), <<TimeRule(WithoutMalformed(last.timePeriods))>>,
                              [model |-> ModelOpus, requestTime |-> last.currentTime,
                               timezone |-> last.timezone], "multiply")

\* A call in an unknown zone on a list whose first period is malformed and
\* whose second period matches.
C22_Witness ==
    /\ last.op = "isWithinTimePeriod"
    /\ ~isValidTimezone(last.timezone)
    /\ Len(last.timePeriods) = 2
    /\ ~WellFormed(last.timePeriods[1])
    /\ last.timePeriods[1].startTime = NullTime
    /\ last.result
    /\ ~last.threw

\* ================================================================== MapSpec
\* The string and hash operations of InMemoryMap under concurrent callers.
\* Keys are sequences of characters; a hash field lives under key ":" field.
\* Each function below is the synchronous body of the method of its name:
\* the map after it and what it returns.

\* Mutant: the value before the increment is returned.
incr_ReturnsOld(data, key, now) ==
    LET live == key \in DOMAIN data /\ ~isExpired(data[key], now)
        current == IF live THEN data[key].value ELSE 0
    IN  [data |-> MSet(data, key, MEntry(current + 1, live /\ data[key].hasExpiry,
                                         IF live THEN data[key].expiry ELSE 0)),
         result |-> current]

incr(data, key, now) ==
    LET live == key \in DOMAIN data /\ ~isExpired(data[key], now)
        current == IF live THEN data[key].value ELSE 0
        newValue == current + 1
    IN  [data |-> MSet(data, key, MEntry(newValue, live /\ data[key].hasExpiry,
                                         IF live THEN data[key].expiry ELSE 0)),
         result |-> newValue]

decr(data, key, now) ==
    LET live == key \in DOMAIN data /\ ~isExpired(data[key], now)
        current == IF live THEN data[key].value ELSE 0
        newValue == current - 1
    IN  [data |-> MSet(data, key, MEntry(newValue, live /\ data[key].hasExpiry,
                                         IF live THEN data[key].expiry ELSE 0)),
         result |-> newValue]

\* Mutant: the NX flag is not looked at.
setWithOptions_IgnoreNX(data, key, value, ex, seconds, nx, now) ==
    [data |-> MSet(data, key, MEntry(value, ex, IF ex THEN now + seconds * 1000 ELSE 0)),
     result |-> "OK"]

\* ex and nx say whether "EX" and "NX" were passed; null is "null".
setWithOptions(data, key, value, ex, seconds, nx, now) ==
    IF nx /\ key \in DOMAIN data /\ ~isExpired(data[key], now)
    THEN [data |-> data, result |-> "null"]
    ELSE [data |-> MSet(data, key, MEntry(value, ex, IF ex THEN now + seconds * 1000 ELSE 0)),
          result |-> "OK"]

set(data, key, value) == MSet(data, key, MEntry(value, FALSE, 0))

del(data, key) ==
    [data |-> MDel(data, key), result |-> IF key \in DOMAIN data THEN 1 ELSE 0]

\* `${key}:${field}`
HashKey(key, field) == key \o <<":">> \o field

hset(data, key, field, value) ==
    [data |-> MSet(data, HashKey(key, field), MEntry(value, FALSE, 0)),
     result |-> IF HashKey(key, field) \in DOMAIN data THEN 0 ELSE 1]

hget(data, key, field, now) == get(data, HashKey(key, field), now)

StartsWith(str, prefix) ==
    Len(str) >= Len(prefix) /\ SubSeq(str, 1, Len(prefix)) = prefix

\* hgetall: field -> value for the unexpired entries under the prefix; the
\* expired ones under the prefix are deleted.
hgetall(data, key, now) ==
    LET prefix == key \o <<":">>
        under == {k \in DOMAIN data : StartsWith(k, prefix)}
        kept == {k \in under : ~isExpired(data[k], now)}
    IN  [data |-> [k \in DOMAIN data \ (under \ kept) |-> data[k]],
         result |-> {<<SubSeq(k, Len(prefix) + 1, Len(k)), data[k].value>> : k \in kept}]

\* new RegExp(`^${pattern with * as .* and ? as .}$`).test(text)
RECURSIVE GlobTest(_, _)
GlobTest(pattern, text) ==
    IF pattern = <<>> THEN text = <<>>
    ELSE IF Head(pattern) = "*"
    THEN GlobTest(Tail(pattern), text) \/ (text # <<>> /\ GlobTest(pattern, Tail(text)))
    ELSE IF Head(pattern) = "?"
    THEN text # <<>> /\ GlobTest(Tail(pattern), Tail(text))
    ELSE text # <<>> /\ Head(pattern) = Head(text) /\ GlobTest(Tail(pattern), Tail(text))

Includes(str, part) ==
    \E i \in 1..(Len(str) - Len(part) + 1) : SubSeq(str, i, i + Len(part) - 1) = part

\* key.split(":").slice(0, -1).join(":"): the key up to its last colon.
BaseKey(key) ==
    LET colons == {i \in 1..Len(key) : key[i] = ":"}
    IN  IF colons = {} THEN <<>>
        ELSE SubSeq(key, 1, (CHOOSE i \in colons : \A j \in colons : j <= i) - 1)

InfoSuffix == <<":", "i", "n", "f", "o">>

\* scan: the keys returned, as a set; expired entries are deleted on the way.
scan(data, pattern, now) ==
    LET kept == {k \in DOMAIN data : ~isExpired(data[k], now)}
        hashPattern == Includes(pattern, InfoSuffix) \/ Includes(pattern, <<":", "*", ":">>)
    IN  [data |-> [k \in kept |-> data[k]],
         result |-> IF hashPattern
                    THEN {BaseKey(k) : k \in {x \in kept : BaseKey(x) # <<>>
                                                          /\ GlobTest(pattern, BaseKey(x))}}
                    ELSE {k \in kept : GlobTest(pattern, k)}]

type(data, key, now) ==
    LET r == get(data, key, now)
    IN  [data |-> r.data, result |-> IF r.found THEN "string" ELSE "none"]

\* cleanup, the sweep of the 60 s interval: entry.expiry && entry.expiry <= now
cleanup(data, now) ==
    [k \in {x \in DOMAIN data :
               ~(data[x].hasExpiry /\ data[x].expiry # 0 /\ data[x].expiry <= now)}
        |-> data[k]]

\* exists(...keys) for distinct keys
existsCount(data, keys, now) == Cardinality({k \in keys : exists(data, k, now) = 1})

MaxMapWrites == 1
MaxMapTicks == 2
MsPerSecond == 1000
TickMs == MsPerSecond
MapProcs == {1, 2, 3}
CounterKey == <<"k">>
FieldF == <<"h", ":", "f">>
FieldG == <<"h", ":", "g">>
Nested == <<"a", ":", "b", ":", "c", ":", "f">>
MapKeys == {CounterKey, FieldF, FieldG, Nested}
ScanPatterns == {<<"*">>, <<"h", ":", "*">>, <<"*", ":", "*", ":", "*">>, <<"?">>}
Increment == 2
InitialValue == 5

\* What a run is about: counters, conditional sets, or reads and plain writes.
MapFocuses == {"counters", "setnx", "reads"}

MapIdle ==
    [pc |-> "idle", op |-> "none", key |-> <<>>, waited |-> FALSE, at |-> 0,
     result |-> 0, dead |-> FALSE, changed |-> FALSE]

NoMapRead == [op |-> "none", keys |-> {}, now |-> 0, before |-> << >>, result |-> 0]

\* The expiries an entry can start with: none, or 1 s or 2 s from the start.
InitialEntries ==
    {MEntry(InitialValue, FALSE, 0), MEntry(InitialValue, TRUE, TickMs),
     MEntry(InitialValue, TRUE, 2 * TickMs)}

MapInit ==
    /\ clock = 0
    /\ ticks = 0
    /\ zsetData = << >>
    /\ tracked = <<>>
    /\ last = NoMapRead
    /\ lastGet = [k \in WindowKeys |-> NoGet]
    /\ wkey \in MapFocuses
    /\ nTrack = 0
    /\ proc = [p \in MapProcs |-> MapIdle]
    /\ rwMutex = NoHolder
    /\ stMutex = NoHolder
    /\ status = "ready"
    /\ NoEndpoints
    /\ \E present \in SUBSET MapKeys :
         /\ wkey # "reads" => present \subseteq {CounterKey}
         /\ mapData \in [present -> InitialEntries]
         /\ wkey = "reads" => \A k \in present : mapData[k].expiry # 2 * TickMs
    /\ cfg = [type |-> "map", initial |-> mapData]

\* In a run about reads, one read is followed: it is the last step.
BeforeTheRead == wkey = "reads" => last.op = "none"

MapFrame ==
    UNCHANGED <<zsetData, tracked, lastGet, wkey, rwMutex, stMutex, status, cfg, epVars>>

\* The Mutex of the map is held from the moment runExclusive takes it to the
\* end of the callback.
MapMutexFree == \A q \in MapProcs : proc[q].pc # "locked"

MapTick ==
    /\ ticks < MaxMapTicks
    /\ BeforeTheRead
    /\ clock' = clock + TickMs
    /\ ticks' = ticks + 1
    /\ UNCHANGED <<mapData, proc, last, nTrack>>
    /\ MapFrame

\* The sweep; the interval is taken to fire at any time.
MapCleanup ==
    /\ BeforeTheRead
    /\ cleanup(mapData, clock) # mapData
    /\ mapData' = cleanup(mapData, clock)
    /\ UNCHANGED <<clock, ticks, proc, last, nTrack>>
    /\ MapFrame

\* incr, decr, incrbyfloat or set(.., "EX", 1, "NX") up to runExclusive: the
\* mutex is taken at once when free, otherwise the caller joins the queue.
MapCall(p) ==
    /\ proc[p].pc = "idle"
    /\ wkey \in {"counters", "setnx"}
    /\ \A q \in MapProcs : q < p => proc[q].pc # "idle"
    /\ \E op \in {"incr", "decr", "incrbyfloat", "setnx"} :
         /\ (op = "setnx") <=> (wkey = "setnx")
         /\ proc' = [proc EXCEPT ![p] =
                [MapIdle EXCEPT !.pc = IF MapMutexFree THEN "locked" ELSE "queued",
                                !.op = op, !.key = CounterKey,
                                !.waited = ~MapMutexFree]]
    /\ UNCHANGED <<clock, ticks, mapData, last, nTrack>>
    /\ MapFrame

\* A queued caller is handed the released mutex (caller 1 calls first and
\* never queues).
MapAcquire(p) ==
    /\ proc[p].pc = "queued"
    /\ MapMutexFree
    /\ proc' = [proc EXCEPT ![p].pc = "locked"]
    /\ UNCHANGED <<clock, ticks, mapData, last, nTrack>>
    /\ MapFrame

\* The callback of runExclusive, then the release.
MapRun(p) ==
    /\ proc[p].pc = "locked"
    /\ LET key == proc[p].key
           r == IF proc[p].op = "incr" THEN incr(mapData, key, clock)
                ELSE IF proc[p].op = "decr" THEN decr(mapData, key, clock)
                ELSE IF proc[p].op = "incrbyfloat"
                THEN LET d == incrbyfloat(mapData, key, Increment, clock)
                     IN  [data |-> d, result |-> d[key].value]
                ELSE setWithOptions(mapData, key, p, TRUE, 1, TRUE, clock)
       IN  /\ mapData' = r.data
           /\ proc' = [proc EXCEPT ![p] =
                  [@ EXCEPT !.pc = "done", !.at = clock, !.result = r.result,
                            !.dead = \/ key \notin DOMAIN mapData
                                     \/ (mapData[key].hasExpiry
                                         /\ mapData[key].expiry <= clock),
                            !.changed = r.data # mapData]]
    /\ UNCHANGED <<clock, ticks, last, nTrack>>
    /\ MapFrame

\* get, exists, type, hget, hgetall and scan: no mutex, one synchronous body.
MapRead ==
    /\ wkey = "reads"
    /\ BeforeTheRead
    /\ \E op \in {"get", "exists", "type", "hget", "hgetall", "scan"} :
       \E key \in MapKeys, pattern \in ScanPatterns :
         LET r == IF op = "get" THEN get(mapData, key, clock)
                  ELSE IF op = "exists"
                  THEN [data |-> mapData,
                        result |-> existsCount(mapData, {key, FieldF}, clock)]
                  ELSE IF op = "type" THEN type(mapData, key, clock)
                  ELSE IF op = "hget" THEN hget(mapData, <<"h">>, <<key[Len(key)]>>, clock)
                  ELSE IF op = "hgetall" THEN hgetall(mapData, <<key[1]>>, clock)
                  ELSE scan(mapData, pattern, clock)
             arg == IF op = "exists" THEN {key, FieldF}
                    ELSE IF op = "hget" THEN {HashKey(<<"h">>, <<key[Len(key)]>>)}
                    ELSE IF op = "hgetall" THEN {<<key[1]>>}
                    ELSE IF op = "scan" THEN {pattern}
                    ELSE {key}
         IN  /\ mapData' = r.data
             /\ last' = [op |-> op, keys |-> arg, now |-> clock, before |-> mapData,
                         result |-> IF op \in {"get", "hget"}
                                    THEN IF r.found THEN <<r.value>> ELSE <<>>
                                    ELSE r.result]
    /\ UNCHANGED <<clock, ticks, proc, nTrack>>
    /\ MapFrame

\* setex, set, hset, expire and del: no mutex (hset: a callback that awaits
\* nothing), one synchronous body.
MapWrite ==
    /\ wkey = "reads"
    /\ BeforeTheRead
    /\ nTrack < MaxMapWrites
    /\ \E op \in {"setex", "set", "hset", "expire", "del"}, key \in MapKeys :
         mapData' = IF op = "setex" THEN setex(mapData, key, 1, InitialValue + 1, clock)
                    ELSE IF op = "set" THEN set(mapData, key, InitialValue + 1)
                    ELSE IF op = "hset"
                    THEN hset(mapData, <<"h">>, <<key[Len(key)]>>, InitialValue + 1).data
                    ELSE IF op = "expire" THEN expire(mapData, key, 1, clock)
                    ELSE del(mapData, key).data
    /\ mapData' # mapData
    /\ nTrack' = nTrack + 1
    /\ UNCHANGED <<clock, ticks, proc, last>>
    /\ MapFrame

MapNext ==
    \/ MapTick
    \/ MapCleanup
    \/ MapRead
    \/ MapWrite
    \/ MapCall(1) \/ MapCall(2) \/ MapCall(3)
    \/ MapAcquire(2) \/ MapAcquire(3)
    \/ MapRun(1) \/ MapRun(2) \/ MapRun(3)

MapSpec == MapInit /\ [][MapNext]_vars

\* ---- what the calls are judged against
DoneProcs == {p \in MapProcs : proc[p].pc = "done"}
IsCounterOp(p) == proc[p].op \in {"incr", "decr", "incrbyfloat"}

Delta(p) ==
    IF proc[p].op = "incr" THEN 1
    ELSE IF proc[p].op = "decr" THEN -1
    ELSE Increment

RECURSIVE SumOfDeltas(_)
SumOfDeltas(S) ==
    IF S = {} THEN 0
    ELSE LET p == CHOOSE x \in S : TRUE IN Delta(p) + SumOfDeltas(S \ {p})

\* The counter was live with value v from the start up to now (v = 0 for a
\* key that was absent), so that every call so far found it live.
LiveThroughout ==
    CounterKey \in DOMAIN cfg.initial =>
        (cfg.initial[CounterKey].hasExpiry => clock < cfg.initial[CounterKey].expiry)

ValueAtStart ==
    IF CounterKey \in DOMAIN cfg.initial THEN cfg.initial[CounterKey].value ELSE 0

\* ------------------------------------------------------------------- C23
\* C23: with the counter live at v throughout (0 when absent), after any
\* number of concurrent incr, decr and incrbyfloat calls have run the stored
\* value is v plus the sum of their steps, and when k incr calls and nothing
\* else have run they returned the k distinct values v + 1 .. v + k.
C23_NoLostUpdate ==
    (wkey = "counters" /\ LiveThroughout /\ DoneProcs # {}) =>
        /\ mapData[CounterKey].value = ValueAtStart + SumOfDeltas(DoneProcs)
        /\ (\A p \in DoneProcs : proc[p].op = "incr") =>
               {proc[p].result : p \in DoneProcs}
                   = (ValueAtStart + 1)..(ValueAtStart + Cardinality(DoneProcs))

\* Three incr calls were in flight together, two of them queued behind the
\* mutex, and all have run on a counter that started at 5.
C23_Witness ==
    /\ wkey = "counters"
    /\ LiveThroughout
    /\ DoneProcs = MapProcs
    /\ \A p \in MapProcs : proc[p].op = "incr"
    /\ proc[2].waited /\ proc[3].waited
    /\ ValueAtStart = InitialValue
    /\ mapData[CounterKey].value = InitialValue + 3

\* ------------------------------------------------------------------- C24
\* C24: set(key, value, "EX", 1, "NX") writes only on an absent or expired
\* key: a call that returns null has changed nothing; on a key absent at the
\* start the first call to run returns OK; a second OK comes only after the
\* entry of the first has expired; and a key that never expires admits none.
NxDone == {p \in DoneProcs : proc[p].op = "setnx"}

C24_SetIfAbsent ==
    wkey = "setnx" =>
        /\ \A p \in NxDone :
             /\ proc[p].result \in {"OK", "null"}
             /\ proc[p].result = "null" => ~proc[p].changed
             /\ proc[p].result = "OK" =>
                    \/ proc[p].at + MsPerSecond <= clock
                    \/ /\ CounterKey \in DOMAIN mapData
                       /\ mapData[CounterKey] = MEntry(p, TRUE, proc[p].at + MsPerSecond)
        /\ \A p, q \in NxDone :
             (p # q /\ proc[p].result = "OK" /\ proc[q].result = "OK") =>
                 \/ proc[p].at + MsPerSecond <= proc[q].at
                 \/ proc[q].at + MsPerSecond <= proc[p].at
        /\ (CounterKey \notin DOMAIN cfg.initial /\ NxDone # {}) =>
               \E p \in NxDone : proc[p].result = "OK"
        /\ (CounterKey \in DOMAIN cfg.initial /\ ~cfg.initial[CounterKey].hasExpiry) =>
               \A p \in NxDone : proc[p].result = "null"

\* Three NX calls on an absent key were in flight together and ran at the
\* same instant: one returned OK, two returned null.
C24_Witness ==
    /\ wkey = "setnx"
    /\ CounterKey \notin DOMAIN cfg.initial
    /\ NxDone = MapProcs
    /\ proc[2].waited /\ proc[3].waited
    /\ \A p \in MapProcs : proc[p].at = proc[1].at
    /\ Cardinality({p \in MapProcs : proc[p].result = "OK"}) = 1
    /\ Cardinality({p \in MapProcs : proc[p].result = "null"}) = 2

\* The keys of a map whose entry has no expiry or an expiry after now.
Unexpired(data, now) ==
    {k \in DOMAIN data : data[k].hasExpiry => data[k].expiry > now}

\* ------------------------------------------------------------------- C26
\* C26: a read at time now answers from the entries whose expiry is after
\* now and from no other, swept or not: get and hget find the key exactly
\* when it is such an entry, exists counts such keys, type says string for
\* them alone, hgetall lists exactly the such fields of the hash, scan
\* returns only keys (or base keys) of such entries; and a counter call that
\* finds its entry absent or expired returns 0 plus its step.
C26_ExpiredIsAbsent ==
    /\ last.op \in {"get", "hget"} =>
         \A k \in last.keys :
             last.result = IF k \in Unexpired(last.before, last.now)
                           THEN <<last.before[k].value>> ELSE <<>>
    /\ last.op = "exists" =>
         last.result = Cardinality(last.keys \cap Unexpired(last.before, last.now))
    /\ last.op = "type" =>
         \A k \in last.keys :
             (last.result = "string") <=> (k \in Unexpired(last.before, last.now))
    /\ last.op = "hgetall" =>
         \A h \in last.keys :
             last.result =
                 {<<SubSeq(k, Len(h) + 2, Len(k)), last.before[k].value>> :
                      k \in {x \in Unexpired(last.before, last.now) :
                                StartsWith(x, h \o <<":">>)}}
    /\ last.op = "scan" =>
         \A k \in last.result :
             \/ k \in Unexpired(last.before, last.now)
             \/ \E x \in Unexpired(last.before, last.now) : k = BaseKey(x)
    /\ \A p \in DoneProcs : (IsCounterOp(p) /\ proc[p].dead) => proc[p].result = Delta(p)

\* An entry past its expiry and not yet swept is read: get does not find it.
C26_Witness ==
    /\ last.op = "get"
    /\ last.result = <<>>
    /\ \E k \in last.keys :
         /\ k \in DOMAIN last.before
         /\ last.before[k].hasExpiry
         /\ last.before[k].expiry = last.now

\* ============================================================= PipelineSpec
\* InMemoryPipeline.exec(): the queued commands are awaited one after the
\* other, so other callers run in between.  proc[1] is the caller of exec().
MaxCommands == 3
MaxInterleaved == 2

SetsKey == <<"z">>
NullResult == "null"

\* The commands a queue is made of.  hset with null in place of the field map
\* is the command that fails: Object.entries(null) raises TypeError.
PipeCommands ==
    {[method |-> "incr", key |-> CounterKey], [method |-> "get", key |-> CounterKey],
     [method |-> "expire", key |-> CounterKey], [method |-> "hsetNull", key |-> CounterKey],
     [method |-> "zadd", key |-> SetsKey]}

Fails(cmd) == cmd.method = "hsetNull"

\* One command run against the stores: the stores after it, whether it
\* raised, and what it returned.
RunCommand(cmd, mp, z, now) ==
    IF cmd.method = "incr"
    THEN LET r == incr(mp, cmd.key, now)
         IN  [m |-> r.data, z |-> z, raised |-> FALSE, value |-> r.result]
    ELSE IF cmd.method = "get"
    THEN LET r == get(mp, cmd.key, now)
         IN  [m |-> r.data, z |-> z, raised |-> FALSE,
              value |-> IF r.found THEN r.value ELSE -1]
    ELSE IF cmd.method = "expire"
    THEN [m |-> expire(mp, cmd.key, 1, now), z |-> z, raised |-> FALSE,
          value |-> exists(mp, cmd.key, now)]
    ELSE IF cmd.method = "zadd"
    THEN [m |-> mp, z |-> ZPut(z, cmd.key, zadd(ZGet(z, cmd.key), now, "s")),
          raised |-> FALSE,
          value |-> IF \E i \in 1..Len(ZGet(z, cmd.key)) : ZGet(z, cmd.key)[i].member = "s"
                    THEN 0 ELSE 1]
    ELSE [m |-> mp, z |-> z, raised |-> TRUE, value |-> 0]

\* Mutant: the batch is abandoned at the first command that raises.
NextCommand_AbortOnError(index, raised, count) ==
    IF raised THEN count + 1 ELSE index + 1

\* for (const cmd of this.commands): the catch is inside the loop.
NextCommand(index, raised, count) == index + 1

PipeIdle == [pc |-> "queueing", commands |-> <<>>, index |-> 1, results |-> <<>>]

\* cfg.commands is the queue built before exec() is called.
PipelineInit ==
    /\ clock = 0
    /\ ticks = 0
    /\ zsetData = << >>
    /\ tracked = <<>>
    /\ last = [op |-> "none"]
    /\ lastGet = [k \in WindowKeys |-> NoGet]
    /\ wkey = NoKey
    /\ nTrack = 0
    /\ rwMutex = NoHolder
    /\ stMutex = NoHolder
    /\ status = "ready"
    /\ NoEndpoints
    /\ \E present \in BOOLEAN :
         mapData = IF present THEN (CounterKey :> MEntry(InitialValue, FALSE, 0)) ELSE << >>
    /\ \E n \in 1..MaxCommands : \E commands \in [1..n -> PipeCommands] :
         /\ cfg = [type |-> "pipeline", commands |-> commands, initial |-> mapData]
         /\ proc = <<[PipeIdle EXCEPT !.commands = commands]>>

PipelineFrame ==
    UNCHANGED <<clock, ticks, last, lastGet, wkey, rwMutex, stMutex, status, cfg, epVars>>

\* exec() is called: the loop starts.
PipeExec ==
    /\ proc[1].pc = "queueing"
    /\ proc' = [proc EXCEPT ![1].pc = "running"]
    /\ UNCHANGED <<mapData, zsetData, tracked, nTrack>>
    /\ PipelineFrame

\* One turn of the loop: the command is awaited and its pair pushed.  tracked
\* lists the positions of the commands in the order they ran.
PipeStep ==
    /\ proc[1].pc = "running"
    /\ proc[1].index <= Len(proc[1].commands)
    /\ LET cmd == proc[1].commands[proc[1].index]
           r == RunCommand(cmd, mapData, zsetData, clock)
       IN  /\ mapData' = r.m
           /\ zsetData' = r.z
           /\ tracked' = Append(tracked, proc[1].index)
           /\ proc' = [proc EXCEPT
                  ![1].results = Append(@, [error |-> r.raised,
                                            result |-> IF r.raised THEN NullResult
                                                       ELSE r.value]),
                  ![1].index = NextCommand(proc[1].index, r.raised, Len(proc[1].commands))]
    /\ UNCHANGED nTrack
    /\ PipelineFrame

\* The loop is over: this.commands = [] and the pairs are returned.
PipeReturn ==
    /\ proc[1].pc = "running"
    /\ proc[1].index > Len(proc[1].commands)
    /\ proc' = [proc EXCEPT ![1].pc = "returned", ![1].commands = <<>>]
    /\ UNCHANGED <<mapData, zsetData, tracked, nTrack>>
    /\ PipelineFrame

\* Another caller's incr on the same key gets in between two commands.
PipeOther ==
    /\ proc[1].pc = "running"
    /\ nTrack < MaxInterleaved
    /\ mapData' = incr(mapData, CounterKey, clock).data
    /\ nTrack' = nTrack + 1
    /\ UNCHANGED <<zsetData, tracked, proc>>
    /\ PipelineFrame

PipelineNext ==
    \/ PipeExec
    \/ PipeStep
    \/ PipeReturn
    \/ PipeOther

PipelineSpec == PipelineInit /\ [][PipelineNext]_vars

\* ---- what exec() is judged against
Queued == cfg.commands
PipeResults == proc[1].results

IncrsUpTo(i) == Cardinality({j \in 1..i : Queued[j].method = "incr"})

CounterAtStart ==
    IF CounterKey \in DOMAIN cfg.initial THEN cfg.initial[CounterKey].value ELSE 0

\* ------------------------------------------------------------------- C25
\* C25: the commands run one at a time in queue order, and exec() returns
\* one pair per queued command in that order: (error, null) for a command
\* that raised, (null, result) otherwise; the commands after a failed one
\* have run and the effects of the ones before it stand: the counter holds
\* its start value plus one per incr of the queue and per incr of other
\* callers, and the j-th incr of the queue returned a value at least j above
\* the start value and above the incr before it.
C25_PipelinePairs ==
    /\ \A i \in 1..Len(tracked) : tracked[i] = i
    /\ Len(PipeResults) = Len(tracked)
    /\ \A i \in 1..Len(PipeResults) :
         /\ PipeResults[i].error <=> Fails(Queued[i])
         /\ PipeResults[i].error => PipeResults[i].result = NullResult
         /\ Queued[i].method = "incr" =>
                /\ PipeResults[i].result >= CounterAtStart + IncrsUpTo(i)
                /\ PipeResults[i].result <= CounterAtStart + IncrsUpTo(i) + nTrack
                /\ \A j \in 1..(i - 1) :
                       Queued[j].method = "incr" =>
                           PipeResults[j].result < PipeResults[i].result
    /\ proc[1].pc = "returned" =>
         /\ Len(PipeResults) = Len(Queued)
         /\ IncrsUpTo(Len(Queued)) + nTrack > 0 =>
                mapData[CounterKey].value
                    = CounterAtStart + IncrsUpTo(Len(Queued)) + nTrack

\* exec() has returned three pairs for incr, the failing command, incr: the
\* middle pair is the error and both increments stand.
C25_Witness ==
    /\ proc[1].pc = "returned"
    /\ Len(Queued) = 3
    /\ Queued[1].method = "incr" /\ Fails(Queued[2]) /\ Queued[3].method = "incr"
    /\ PipeResults[2].error
    /\ ~PipeResults[3].error
    /\ nTrack = 0
    /\ mapData[CounterKey].value = CounterAtStart + 2

\* ================================================================ CountSpec
\* SessionTracker: the three count calls step by step (each await of
\* countFromZSet is a point where other callers run), beside trackSession,
\* updateProvider, refreshSession and the session-binding collaborator that
\* owns session:{id}:info.  proc[1] is the caller of the count.
MaxCountTicks == 2
MaxCountWrites == 2
TicksPerWindow == 2
BACKSTOP_TTL == 3600
BINDING_TTL == 300

CountTickMs == SESSION_TTL \div TicksPerWindow
CountSessions == {1, 2}
CountKeyId == 1
CountProviderId == 1
ScopeKeys == {GlobalSessionsKey, KeySessionsKey(CountKeyId), ProviderSessionsKey(CountProviderId)}
SessionLastSeenKey(sessionId) == <<"session", sessionId, <<"last_seen">>>>
SessionProviderKey(sessionId) == <<"session", sessionId, <<"provider">>>>
SessionKeyKey(sessionId) == <<"session", sessionId, <<"key">>>>

\* updateProvider: the pipeline of part_010:96-100, command after command.
updateProvider(z, mp, sessionId, providerId, now) ==
    LET z1 == ZPut(z, GlobalSessionsKey, zadd(ZGet(z, GlobalSessionsKey), now, sessionId))
        pk == ProviderSessionsKey(providerId)
        z2 == ZPut(z1, pk, zadd(ZGet(z1, pk), now, sessionId))
        m1 == expire(mp, pk, BACKSTOP_TTL, now)
    IN  [z |-> z2, m |-> m1]

\* refreshSession: the pipeline of part_010:137-145.
refreshSession(z, mp, sessionId, keyId, providerId, now) ==
    LET kk == KeySessionsKey(keyId)
        pk == ProviderSessionsKey(providerId)
        z1 == ZPut(z, GlobalSessionsKey, zadd(ZGet(z, GlobalSessionsKey), now, sessionId))
        z2 == ZPut(z1, kk, zadd(ZGet(z1, kk), now, sessionId))
        z3 == ZPut(z2, pk, zadd(ZGet(z2, pk), now, sessionId))
        m1 == expire(mp, SessionProviderKey(sessionId), BINDING_TTL, now)
        m2 == expire(m1, SessionKeyKey(sessionId), BINDING_TTL, now)
        m3 == setex(m2, SessionLastSeenKey(sessionId), BINDING_TTL, now, now)
    IN  [z |-> z3, m |-> m3]

\* Mutant: a pair counts whenever the command did not raise.
Counted_NoMarkerCheck(pair) == pair.error = FALSE

\* result[0] === null && result[1] === 1
Counted(pair) == pair.error = FALSE /\ pair.result = 1

\* The ids of a scope that are live at an instant: their score is newer than
\* five minutes and their marker exists unexpired.
LiveIds(z, mp, key, now) ==
    {e.member : e \in {ZGet(z, key)[i] : i \in 1..Len(ZGet(z, key))
                         \cap {j \in 1..Len(ZGet(z, key)) :
                                 /\ ZGet(z, key)[j].score > now - SESSION_TTL
                                 /\ exists(mp, SessionInfoKey(ZGet(z, key)[j].member), now) = 1}}}

CountIdle ==
    [pc |-> "idle", key |-> GlobalSessionsKey, now |-> 0, ids |-> <<>>, results |-> <<>>,
     clean |-> TRUE, seen |-> {}, before |-> << >>, mbefore |-> << >>]

NoSession == [on |-> FALSE, refreshed |-> FALSE, touch |-> 0, kept |-> FALSE]
Untouched == [armed |-> FALSE, at |-> 0]

\* The collaborator has written session:{id}:info of some sessions at time 0,
\* and writes at most one more during the run (wkey is the key it wrote).
\* tracked[s] remembers when session s was last tracked or refreshed and
\* whether every gap so far was at most five minutes with the marker alive;
\* lastGet[k] remembers the last operation on the set k and whether expire
\* was issued for it.
CountInit ==
    /\ clock = 0
    /\ ticks = 0
    /\ zsetData = << >>
    /\ \E markers \in SUBSET CountSessions :
         mapData = [k \in {SessionInfoKey(s) : s \in markers} |->
                       MEntry(1, TRUE, BINDING_TTL * MsPerSecond)]
    /\ tracked = [s \in CountSessions |-> NoSession]
    /\ lastGet = [k \in ScopeKeys |-> Untouched]
    /\ last = [op |-> "none"]
    /\ wkey = NoKey
    /\ nTrack = 0
    /\ proc = <<CountIdle>>
    /\ rwMutex = NoHolder
    /\ stMutex = NoHolder
    /\ status = "ready"
    /\ cfg = [type |-> "count"]
    /\ NoEndpoints

CountFrame == UNCHANGED <<rwMutex, stMutex, status, cfg, epVars>>

InFlight == proc[1].pc \in {"started", "trimmed", "checking"}

\* The numbers of live members a state of the store can be said to hold for
\* a count that read now as callNow: its members live at the state's own
\* instant, and its members newer than callNow minus five minutes whose
\* marker is alive at the state's instant.
\* What another caller's step does to the count in flight: the call is no
\* longer undisturbed, and one more state of the store has been passed.
LiveCounts(z, mp, key, callNow, now) ==
    {Cardinality(LiveIds(z, mp, key, now)),
     Cardinality({id \in LiveIds(z, mp, key, callNow) :
                     exists(mp, SessionInfoKey(id), now) = 1})}

Passed(z, mp, now) ==
    IF InFlight
    THEN [proc EXCEPT ![1].clean = FALSE,
                      ![1].seen = @ \cup LiveCounts(z, mp, proc[1].key, proc[1].now, now)]
    ELSE proc

Touch(keys, arming) ==
    [k \in ScopeKeys |->
        IF k \in keys
        THEN [armed |-> lastGet[k].armed \/ k \in arming, at |-> clock]
        ELSE lastGet[k]]

MarkerLive(s) == exists(mapData, SessionInfoKey(s), clock) = 1

CountTick ==
    /\ ticks < MaxCountTicks
    /\ clock' = clock + CountTickMs
    /\ ticks' = ticks + 1
    /\ proc' = Passed(zsetData, mapData, clock')
    /\ UNCHANGED <<zsetData, mapData, tracked, lastGet, last, nTrack>>
    /\ UNCHANGED wkey
    /\ CountFrame

\* More than an hour goes by with no call at all.
CountIdleHour ==
    /\ clock < BACKSTOP_TTL * MsPerSecond
    /\ proc[1].pc = "idle"
    /\ clock' = clock + BACKSTOP_TTL * MsPerSecond + CountTickMs
    /\ ticks' = MaxCountTicks
    /\ UNCHANGED <<zsetData, mapData, tracked, lastGet, last, nTrack, proc>>
    /\ UNCHANGED wkey
    /\ CountFrame

\* The session-binding collaborator writes session:{id}:info with its TTL.
MarkerSet(s) ==
    /\ wkey = NoKey
    /\ ~MarkerLive(s)
    /\ mapData' = setex(mapData, SessionInfoKey(s), BINDING_TTL, 1, clock)
    /\ wkey' = SessionInfoKey(s)
    /\ proc' = Passed(zsetData, mapData', clock)
    /\ UNCHANGED <<clock, ticks, zsetData, tracked, lastGet, last, nTrack>>
    /\ CountFrame

CountTrackSession(s) ==
    /\ nTrack < MaxCountWrites
    /\ StoreReady(status)
    /\ LET r == trackSession(zsetData, mapData, s, CountKeyId, clock)
       IN  /\ zsetData' = r.z
           /\ mapData' = r.m
           /\ proc' = Passed(r.z, r.m, clock)
    /\ tracked' = [tracked EXCEPT ![s] =
           [on |-> TRUE, refreshed |-> tracked[s].on /\ tracked[s].refreshed, touch |-> clock,
            kept |-> /\ MarkerLive(s)
                     /\ tracked[s].on =>
                            tracked[s].kept /\ clock - tracked[s].touch <= SESSION_TTL]]
    /\ lastGet' = Touch({GlobalSessionsKey, KeySessionsKey(CountKeyId)},
                        {GlobalSessionsKey, KeySessionsKey(CountKeyId)})
    /\ nTrack' = nTrack + 1
    /\ UNCHANGED <<clock, ticks, last>>
    /\ UNCHANGED wkey
    /\ CountFrame

CountUpdateProvider(s) ==
    /\ nTrack < MaxCountWrites
    /\ StoreReady(status)
    /\ LET r == updateProvider(zsetData, mapData, s, CountProviderId, clock)
       IN  /\ zsetData' = r.z
           /\ mapData' = r.m
           /\ proc' = Passed(r.z, r.m, clock)
    /\ lastGet' = Touch({GlobalSessionsKey, ProviderSessionsKey(CountProviderId)},
                        {ProviderSessionsKey(CountProviderId)})
    /\ nTrack' = nTrack + 1
    /\ UNCHANGED <<clock, ticks, tracked, last>>
    /\ UNCHANGED wkey
    /\ CountFrame

CountRefreshSession(s) ==
    /\ nTrack < MaxCountWrites
    /\ StoreReady(status)
    /\ LET r == refreshSession(zsetData, mapData, s, CountKeyId, CountProviderId, clock)
       IN  /\ zsetData' = r.z
           /\ mapData' = r.m
           /\ proc' = Passed(r.z, r.m, clock)
    /\ tracked' = [tracked EXCEPT ![s] =
           IF tracked[s].on
           THEN [on |-> TRUE, refreshed |-> TRUE, touch |-> clock,
                 kept |-> /\ tracked[s].kept
                          /\ MarkerLive(s)
                          /\ clock - tracked[s].touch <= SESSION_TTL]
           ELSE tracked[s]]
    /\ lastGet' = Touch(ScopeKeys, {})
    /\ nTrack' = nTrack + 1
    /\ UNCHANGED <<clock, ticks, last>>
    /\ UNCHANGED wkey
    /\ CountFrame

\* getGlobalSessionCount / getKeySessionCount / getProviderSessionCount up to
\* the first await of countFromZSet: the readiness guards and now.
CountCall ==
    /\ proc[1].pc = "idle"
    /\ last.op = "none"
    /\ StoreReady(status)
    /\ \E key \in ScopeKeys :
         proc' = [proc EXCEPT ![1] =
             [CountIdle EXCEPT !.pc = "started", !.key = key, !.now = clock,
                               !.before = zsetData, !.mbefore = mapData,
                               !.seen = LiveCounts(zsetData, mapData, key, clock, clock)]]
    /\ UNCHANGED <<clock, ticks, zsetData, mapData, tracked, lastGet, last, nTrack>>
    /\ UNCHANGED wkey
    /\ CountFrame

\* await memoryClient.zremrangebyscore(key, -Infinity, fiveMinutesAgo)
CountTrim ==
    /\ proc[1].pc = "started"
    /\ LET key == proc[1].key
           fiveMinutesAgo == proc[1].now - SESSION_TTL
       IN  /\ zsetData' = ZPut(zsetData, key,
                               zremrangebyscore(ZGet(zsetData, key), NEG_INFINITY, fiveMinutesAgo))
           /\ proc' = [proc EXCEPT ![1].pc = "trimmed",
                  ![1].seen = @ \cup LiveCounts(zsetData', mapData, key, proc[1].now, clock)]
           /\ lastGet' = Touch({key}, {})
    /\ UNCHANGED <<clock, ticks, mapData, tracked, last, nTrack>>
    /\ UNCHANGED wkey
    /\ CountFrame

\* await memoryClient.zrange(key, 0, -1); an empty list returns 0 at once.
CountRange ==
    /\ proc[1].pc = "trimmed"
    /\ LET sessionIds == zrange(ZGet(zsetData, proc[1].key), 0, -1)
       IN  IF sessionIds = <<>>
           THEN /\ proc' = [proc EXCEPT ![1].pc = "done"]
                /\ last' = [op |-> "count", key |-> proc[1].key, now |-> proc[1].now,
                            before |-> proc[1].before, mbefore |-> proc[1].mbefore,
                            counted |-> {}, count |-> 0, clean |-> proc[1].clean,
                            seen |-> proc[1].seen, sessions |-> tracked, after |-> ZGet(zsetData, proc[1].key)]
           ELSE /\ proc' = [proc EXCEPT ![1].pc = "checking", ![1].ids = sessionIds]
                /\ UNCHANGED last
    /\ lastGet' = Touch({proc[1].key}, {})
    /\ UNCHANGED <<clock, ticks, zsetData, mapData, tracked, nTrack>>
    /\ UNCHANGED wkey
    /\ CountFrame

\* One command of the pipeline of exists: pipeline.ts:138-151.
CountExists ==
    /\ proc[1].pc = "checking"
    /\ Len(proc[1].results) < Len(proc[1].ids)
    /\ LET sessionId == proc[1].ids[Len(proc[1].results) + 1]
       IN  proc' = [proc EXCEPT ![1].results =
               Append(@, [id |-> sessionId, error |-> FALSE,
                          result |-> exists(mapData, SessionInfoKey(sessionId), clock)])]
    /\ UNCHANGED <<clock, ticks, zsetData, mapData, tracked, lastGet, last, nTrack>>
    /\ UNCHANGED wkey
    /\ CountFrame

\* The pipeline has returned: the pairs are counted and the count returned.
CountReturn ==
    /\ proc[1].pc = "checking"
    /\ Len(proc[1].results) = Len(proc[1].ids)
    /\ LET counted == {proc[1].results[i].id :
                          i \in {j \in 1..Len(proc[1].results) : Counted(proc[1].results[j])}}
       IN  last' = [op |-> "count", key |-> proc[1].key, now |-> proc[1].now,
                    before |-> proc[1].before, mbefore |-> proc[1].mbefore,
                    counted |-> counted,
                    count |-> Cardinality({j \in 1..Len(proc[1].results) :
                                              Counted(proc[1].results[j])}),
                    clean |-> proc[1].clean, seen |-> proc[1].seen, sessions |-> tracked,
                    after |-> ZGet(zsetData, proc[1].key)]
    /\ proc' = [proc EXCEPT ![1].pc = "done"]
    /\ UNCHANGED <<clock, ticks, zsetData, mapData, tracked, lastGet, nTrack>>
    /\ UNCHANGED wkey
    /\ CountFrame

CountNext ==
    \/ CountTick
    \/ CountIdleHour
    \/ MarkerSet(1)
    \/ MarkerSet(2)
    \/ CountTrackSession(1)
    \/ CountTrackSession(2)
    \/ CountUpdateProvider(1)
    \/ CountUpdateProvider(2)
    \/ CountRefreshSession(1)
    \/ CountRefreshSession(2)
    \/ CountCall
    \/ CountTrim
    \/ CountRange
    \/ CountExists
    \/ CountReturn

CountSpec == CountInit /\ [][CountNext]_vars

\* ---- what a count is judged against
CountReturned == last.op = "count"
MembersOf(z) == {z[i] : i \in 1..Len(z)}
SetBefore == ZGet(last.before, last.key)

\* ------------------------------------------------------------------- C27
\* C27: a count call that no other call disturbs returns exactly the number
\* of members of the scope's set whose timestamp is newer than now minus
\* five minutes and whose session:{id}:info marker exists unexpired at now;
\* the members at or older than five minutes are removed from the set, the
\* newer ones stay, and a member without a live marker is not counted.
C27_CountsLiveMembers ==
    CountReturned /\ last.clean =>
        LET fresh == {e \in MembersOf(SetBefore) : e.score > last.now - SESSION_TTL}
            live == {e \in fresh :
                        /\ SessionInfoKey(e.member) \in DOMAIN last.mbefore
                        /\ \/ ~last.mbefore[SessionInfoKey(e.member)].hasExpiry
                           \/ last.mbefore[SessionInfoKey(e.member)].expiry > last.now}
        IN  /\ last.count = Cardinality(live)
            /\ last.counted = {e.member : e \in live}
            /\ MembersOf(last.after) = fresh

\* An undisturbed count met a member exactly five minutes old, a fresh member
\* without a live marker and counted the one fresh member with its marker.
C27_Witness ==
    /\ CountReturned
    /\ last.clean
    /\ last.count = 1
    /\ \E e \in MembersOf(SetBefore) : e.score = last.now - SESSION_TTL
    /\ Len(last.after) = 1
    /\ Len(SetBefore) = 2

\* ------------------------------------------------------------------- C28
\* C28: the count returned by a session-count call is the number of live
\* members of the scope in one single state of the store between the call's
\* start and its end, whatever track, bindProvider and refresh calls run
\* meanwhile.
C28_CountIsOfOneState ==
    CountReturned => last.count \in last.seen

\* ------------------------------------------------------------------- C29
\* C29: a tracked session that has been refreshed, with at most five minutes
\* between one track or refresh and the next and with its marker alive at
\* each of them, and whose last refresh is less than five minutes old, is
\* counted by a count on any of its three scopes.
C29_RefreshedIsCounted ==
    CountReturned /\ last.clean =>
        \A s \in CountSessions :
            /\ last.sessions[s].on
            /\ last.sessions[s].refreshed
            /\ last.sessions[s].kept
            /\ last.now - last.sessions[s].touch < SESSION_TTL
            => s \in last.counted

\* ------------------------------------------------------------------- C30
\* C30: a session set for which expire was issued and which no operation has
\* touched for more than one hour is gone from the store.
C30_BackstopRemovesSet ==
    \A k \in ScopeKeys :
        lastGet[k].armed /\ clock > lastGet[k].at + BACKSTOP_TTL * MsPerSecond
            => k \notin DOMAIN zsetData

\* =========================================================== ConcurrentSpec
\* SessionTracker.incrementConcurrentCount / decrementConcurrentCount /
\* getConcurrentCount on one session.  Each proc is a request: it increments
\* when it starts and decrements when it ends; every await is a point where
\* the other requests run.
MaxConcTicks == 2
COUNTER_TTL == 600

ConcSession == 1
ConcProcs == {1, 2, 3}
ConcTickMs == (COUNTER_TTL * MsPerSecond) \div MaxConcTicks
ConcurrentCountKey(sessionId) == <<"session", sessionId, <<"concurrent_count">>>>

\* Mutant: the key is deleted only below zero.
ShouldDelete_BelowZero(newCount) == newCount < 0

\* if (newCount <= 0)
ShouldDelete(newCount) == newCount <= 0

\* getConcurrentCount: count ? parseInt(count, 10) : 0
getConcurrentCount(st, mp, sessionId, now) ==
    IF ~StoreReady(st) THEN [data |-> mp, result |-> 0]
    ELSE LET r == get(mp, ConcurrentCountKey(sessionId), now)
         IN  [data |-> r.data, result |-> IF r.found THEN r.value ELSE 0]

NoConcGet == [seen |-> FALSE, now |-> 0, value |-> 0]

\* cfg.unmatched are the requests that end without having incremented: their
\* decrement finds whatever the others left, or no counter at all.
ConcInit ==
    /\ clock = 0
    /\ ticks = 0
    /\ zsetData = << >>
    /\ mapData = << >>
    /\ tracked = <<>>
    /\ last = [op |-> "none"]
    /\ lastGet = NoConcGet
    /\ wkey = NoKey
    /\ nTrack = 0
    /\ rwMutex = NoHolder
    /\ stMutex = NoHolder
    /\ status = "ready"
    /\ NoEndpoints
    /\ \E unmatched \in SUBSET ConcProcs :
         /\ cfg = [type |-> "concurrent", unmatched |-> unmatched]
         /\ proc = [p \in ConcProcs |->
                      [pc |-> IF p \in unmatched THEN "running" ELSE "new", newCount |-> 0]]

ConcFrame ==
    UNCHANGED <<zsetData, tracked, wkey, nTrack, rwMutex, stMutex, status, cfg, epVars>>

ConcTick ==
    /\ ticks < MaxConcTicks
    /\ clock' = clock + ConcTickMs
    /\ ticks' = ticks + 1
    /\ UNCHANGED <<mapData, proc, last, lastGet>>
    /\ ConcFrame

\* incrementConcurrentCount up to its second await: await memoryClient.incr(key)
ConcIncr(p) ==
    /\ proc[p].pc = "new"
    /\ StoreReady(status)
    /\ mapData' = incr(mapData, ConcurrentCountKey(ConcSession), clock).data
    /\ proc' = [proc EXCEPT ![p].pc = "incremented"]
    /\ UNCHANGED <<clock, ticks, last, lastGet>>
    /\ ConcFrame

\* await memoryClient.expire(key, 600)
ConcExpire(p) ==
    /\ proc[p].pc = "incremented"
    /\ mapData' = expire(mapData, ConcurrentCountKey(ConcSession), COUNTER_TTL, clock)
    /\ proc' = [proc EXCEPT ![p].pc = "running"]
    /\ UNCHANGED <<clock, ticks, last, lastGet>>
    /\ ConcFrame

\* decrementConcurrentCount: const newCount = await memoryClient.decr(key).
\* Above zero the call is complete; last keeps the store it leaves.
ConcDecr(p) ==
    /\ proc[p].pc = "running"
    /\ StoreReady(status)
    /\ LET r == decr(mapData, ConcurrentCountKey(ConcSession), clock)
       IN  /\ mapData' = r.data
           /\ IF ShouldDelete(r.result)
              THEN /\ proc' = [proc EXCEPT ![p] = [pc |-> "decremented", newCount |-> r.result]]
                   /\ UNCHANGED last
              ELSE /\ proc' = [proc EXCEPT ![p] = [pc |-> "ended", newCount |-> r.result]]
                   /\ last' = [op |-> "decrement", p |-> p, newCount |-> r.result,
                               at |-> clock, data |-> r.data]
    /\ UNCHANGED <<clock, ticks, lastGet>>
    /\ ConcFrame

\* await memoryClient.del(key): the call is complete.
ConcDel(p) ==
    /\ proc[p].pc = "decremented"
    /\ mapData' = del(mapData, ConcurrentCountKey(ConcSession)).data
    /\ proc' = [proc EXCEPT ![p].pc = "ended"]
    /\ last' = [op |-> "decrement", p |-> p, newCount |-> proc[p].newCount,
                at |-> clock, data |-> mapData']
    /\ UNCHANGED <<clock, ticks, lastGet>>
    /\ ConcFrame

\* getConcurrentCount(sessionId), by anyone at any moment.
ConcGet ==
    /\ LET r == getConcurrentCount(status, mapData, ConcSession, clock)
       IN  /\ mapData' = r.data
           /\ lastGet' = [seen |-> TRUE, now |-> clock, value |-> r.result]
    /\ UNCHANGED <<clock, ticks, proc, last>>
    /\ ConcFrame

ConcNext ==
    \/ ConcTick
    \/ ConcGet
    \/ ConcIncr(1) \/ ConcIncr(2) \/ ConcIncr(3)
    \/ ConcExpire(1) \/ ConcExpire(2) \/ ConcExpire(3)
    \/ ConcDecr(1) \/ ConcDecr(2) \/ ConcDecr(3)
    \/ ConcDel(1) \/ ConcDel(2) \/ ConcDel(3)

ConcurrentSpec == ConcInit /\ [][ConcNext]_vars

\* ------------------------------------------------------------------- C31
\* C31: when a decrementConcurrent call completes having brought the counter
\* to zero or below (a decrement of an absent counter brings it to -1), the
\* store it leaves holds no counter entry for the session and getConcurrent
\* on that store returns 0.
C31_NonPositiveCounterDeleted ==
    last.op = "decrement" /\ last.newCount <= 0 =>
        /\ ConcurrentCountKey(ConcSession) \notin DOMAIN last.data
        /\ exists(last.data, ConcurrentCountKey(ConcSession), last.at) = 0
        /\ getConcurrentCount(status, last.data, ConcSession, last.at).result = 0

\* A request that had incremented has decremented the counter from 1 to 0,
\* and a decrement of an absent counter has completed too.
C31_Witness ==
    /\ last.op = "decrement"
    /\ last.newCount = 0
    /\ last.p \notin cfg.unmatched
    /\ \E q \in cfg.unmatched : proc[q].pc = "ended" /\ proc[q].newCount = -1

\* ------------------------------------------------------------------- C36
\* C36: when every request decrements only after its own increment has
\* completed and the counter's ten minutes have not run out, getConcurrent
\* never returns a negative value, and whenever no call is in progress it
\* returns the number of increments minus the number of decrements, that is
\* the number of requests that have incremented and not yet decremented.
ConcQuiescent == \A p \in ConcProcs : proc[p].pc \in {"new", "running", "ended"}
ConcOpen == {p \in ConcProcs : proc[p].pc = "running"}

C36_CounterIsIncrementsMinusDecrements ==
    cfg.unmatched = {} /\ clock < COUNTER_TTL * MsPerSecond =>
        /\ getConcurrentCount(status, mapData, ConcSession, clock).result >= 0
        /\ lastGet.seen => lastGet.value >= 0
        /\ ConcQuiescent =>
               getConcurrentCount(status, mapData, ConcSession, clock).result
                   = Cardinality(ConcOpen)

\* ================================================================ LimitSpec
\* One checkCostLimits call for key 1 on a cache filled by trackCost calls,
\* some of them hours earlier, under limits whose amounts are null (0),
\* negative, or positive.  The call's fast path, durable queries and cache
\* warming are the steps of CostSpec.
LimitAmounts == {-1, 0, 1, MaxAmount}

LimitConfigs ==
    {[limit_5h_usd |-> a5, limit_daily_usd |-> ad, limit_weekly_usd |-> aw,
      limit_monthly_usd |-> am, daily_reset_time |-> Undefined, daily_reset_mode |-> mode] :
        a5 \in LimitAmounts, ad \in LimitAmounts, aw \in {0, 1}, am \in {0, MaxAmount},
        mode \in ResetModes}

LimitInit ==
    /\ clock = 0
    /\ ticks = 0
    /\ zsetData = << >>
    /\ mapData = << >>
    /\ tracked = <<>>
    /\ last = NoCall
    /\ lastGet = [k \in WindowKeys |-> NoGet]
    /\ nTrack = 0
    /\ wkey = NoKey
    /\ proc = [p \in CostProcs |-> CostIdle]
    /\ rwMutex = NoHolder
    /\ stMutex = NoHolder
    /\ NoEndpoints
    /\ status = "ready"
    /\ \E limits \in LimitConfigs : cfg = [type |-> "key", id |-> 1, limits |-> limits]

\* The cache is filled before the call is made.
LimitTick == proc[1].pc = "idle" /\ CostTick
LimitTrack == proc[1].pc = "idle" /\ CostTrack

LimitNext ==
    \/ LimitTick
    \/ LimitTrack
    \/ CheckCostLimitsCall(1)
    \/ CheckCostLimitsQuery(1)
    \/ CheckCostLimitsWarm(1)

LimitSpec == LimitInit /\ [][LimitNext]_vars

\* ---- what the verdict is judged against: the cache as it is read at clock
LimitList == costLimits(cfg.limits)
LimitKey(i) == CheckCostLimitsKey(cfg.type, cfg.id, LimitList[i])
Configured == {i \in 1..Len(LimitList) : LimitList[i].amount > 0}

KeyPresent(i) ==
    IF IsRollingLimit(LimitList[i])
    THEN \E j \in 1..Len(ZGet(zsetData, LimitKey(i))) :
             ZGet(zsetData, LimitKey(i))[j].score > clock - WindowOf(LimitKey(i))
    ELSE /\ LimitKey(i) \in DOMAIN mapData
         /\ ~mapData[LimitKey(i)].hasExpiry \/ mapData[LimitKey(i)].expiry > clock

CachedCurrent(i) ==
    IF IsRollingLimit(LimitList[i])
    THEN LET z == ZGet(zsetData, LimitKey(i))
         IN  SeqSum([j \in 1..Len(z) |->
                        IF z[j].score > clock - WindowOf(LimitKey(i))
                        THEN z[j].member[2] ELSE 0])
    ELSE mapData[LimitKey(i)].value

Denying == {i \in Configured : CachedCurrent(i) >= LimitList[i].amount}

CheckReturned == proc[1].pc = "done" /\ proc[1].fn = "checkCostLimits"

\* ------------------------------------------------------------------- C32
\* C32: with the store ready and the key of every limit that has a positive
\* amount present in the cache, checkCostLimits denies exactly when some such
\* limit has cached current >= amount (equality denies); the limit reported
\* is the first of them in the order 5h, daily, weekly, monthly; a limit
\* whose amount is null, zero or negative is never the one that denies.
C32_DeniesAtFirstReachedLimit ==
    /\ CheckReturned
    /\ status = "ready"
    /\ proc[1].db = {}
    /\ \A i \in Configured : KeyPresent(i)
    => /\ proc[1].res.allowed <=> Denying = {}
       /\ ~proc[1].res.allowed =>
              /\ proc[1].res.by \in Denying
              /\ \A i \in Denying : proc[1].res.by <= i
              /\ proc[1].res.value = CachedCurrent(proc[1].res.by)

\* The 5-hour total is below its amount and passes; the daily total has
\* reached its amount exactly and is the limit reported; the weekly limit,
\* reached too, is not.
C32_Witness ==
    /\ CheckReturned
    /\ proc[1].db = {}
    /\ \A i \in Configured : KeyPresent(i)
    /\ Configured = {1, 2, 3}
    /\ ~proc[1].res.allowed
    /\ proc[1].res.by = 2
    /\ CachedCurrent(1) < LimitList[1].amount
    /\ CachedCurrent(2) = LimitList[2].amount
    /\ 3 \in Denying

\* ================================================================ AdmitSpec
\* Requests of a few sessions ask the session script for admission to one
\* provider, again and again, while the clock moves by half windows.  In
\* ReentrySpec the script is the set's only writer and every call brings a
\* limit of its own; in AdmitSpec the limit is one L > 0 for every call and
\* SessionTracker.updateProvider and refreshSession run for sessions that
\* were admitted.  MaxAdmitCalls bounds the calls of a behaviour, of the
\* script and of the tracker together.
MaxAdmitCalls == 3
MaxAdmitTicks == 2
AdmitSessions == {1, 2, 3}
AdmitProcs == {1, 2}
AdmitTickMs == SESSION_TTL \div TicksPerWindow
AdmitKey == ProviderSessionsKey(CountProviderId)

AdmitIdle ==
    [pc |-> "idle", sessionId |-> 0, limit |-> 0, now |-> 0, isTracked |-> FALSE,
     res |-> NoResult, before |-> <<>>, after |-> <<>>]

AdmitInitWith(writers) ==
    /\ clock = 0
    /\ ticks = 0
    /\ zsetData = << >>
    /\ tracked = {}
    /\ last = NoCall
    /\ lastGet = [k \in WindowKeys |-> NoGet]
    /\ nTrack = 0
    /\ wkey = NoKey
    /\ proc = [p \in AdmitProcs |-> AdmitIdle]
    /\ rwMutex = NoHolder
    /\ stMutex = NoHolder
    /\ NoEndpoints
    /\ status = "ready"
    /\ mapData = << >>
    /\ \E l \in 1..MaxLimit : cfg = [type |-> "admit", limit |-> l, writers |-> writers]

ReentryInit == AdmitInitWith(FALSE)

AdmitInit == AdmitInitWith(TRUE)

AdmitFrame == UNCHANGED <<last, lastGet, wkey, rwMutex, status, cfg, epVars>>

AdmitTick ==
    /\ ticks < MaxAdmitTicks
    /\ clock' = clock + AdmitTickMs
    /\ ticks' = ticks + 1
    /\ UNCHANGED <<zsetData, tracked, nTrack, proc, stMutex, mapData>>
    /\ AdmitFrame

\* A request enters checkAndTrackSession(providerId, sessionId, limit, now):
\* now is the caller's Date.now(), taken before the wait for the mutex.
ScriptCall(p, sessionId, limit) ==
    /\ proc[p].pc \in {"idle", "done"}
    /\ nTrack < MaxAdmitCalls
    /\ nTrack' = nTrack + 1
    /\ proc' = [proc EXCEPT ![p] = [AdmitIdle EXCEPT !.pc = "acquire", !.sessionId = sessionId,
                                                     !.limit = limit, !.now = clock]]
    /\ UNCHANGED <<clock, ticks, zsetData, tracked, stMutex, mapData>>
    /\ AdmitFrame

ReentryCall(p) == \E s \in AdmitSessions, l \in 0..MaxLimit : ScriptCall(p, s, l)

AdmitCall(p) == \E s \in AdmitSessions : ScriptCall(p, s, cfg.limit)

AdmitAcquire(p) ==
    /\ proc[p].pc = "acquire"
    /\ SessionMutexFree(stMutex)
    /\ stMutex' = p
    /\ proc' = [proc EXCEPT ![p].pc = "trim"]
    /\ UNCHANGED <<clock, ticks, zsetData, tracked, nTrack, mapData>>
    /\ AdmitFrame

\* 1. await store.zremrangebyscore(providerKey, -Infinity, fiveMinutesAgo)
AdmitTrim(p) ==
    LET c == proc[p]
    IN  /\ c.pc = "trim"
        /\ zsetData' = ZPut(zsetData, AdmitKey,
                            zremrangebyscore(ZGet(zsetData, AdmitKey), NEG_INFINITY,
                                             c.now - SESSION_TTL))
        /\ proc' = [proc EXCEPT ![p].pc = "score", ![p].before = ZGet(zsetData, AdmitKey)]
        /\ UNCHANGED <<clock, ticks, tracked, nTrack, stMutex, mapData>>
        /\ AdmitFrame

\* 2. await store.zscore(providerKey, sessionId)
AdmitScore(p) ==
    LET c == proc[p]
    IN  /\ c.pc = "score"
        /\ proc' = [proc EXCEPT ![p].pc = "card",
                                ![p].isTracked = ~zscore(ZGet(zsetData, AdmitKey), c.sessionId).isNull]
        /\ UNCHANGED <<clock, ticks, zsetData, tracked, nTrack, stMutex, mapData>>
        /\ AdmitFrame

\* 3. await store.zcard(providerKey), 4. the limit check: a rejected call
\* returns here and the mutex is released.
AdmitCard(p) ==
    LET c == proc[p]
        currentCount == zcard(ZGet(zsetData, AdmitKey))
    IN  /\ c.pc = "card"
        /\ IF LimitReached(c.limit, c.isTracked, currentCount)
           THEN /\ proc' = [proc EXCEPT ![p].pc = "done",
                              ![p].res = [allowed |-> FALSE, count |-> currentCount,
                                          tracked |-> FALSE],
                              ![p].after = ZGet(zsetData, AdmitKey)]
                /\ stMutex' = NoHolder
           ELSE /\ proc' = [proc EXCEPT ![p].pc = "add",
                              ![p].res = [allowed |-> TRUE,
                                          count |-> IF c.isTracked THEN currentCount
                                                    ELSE currentCount + 1,
                                          tracked |-> ~c.isTracked]]
                /\ stMutex' = stMutex
        /\ UNCHANGED <<clock, ticks, zsetData, tracked, nTrack, mapData>>
        /\ AdmitFrame

\* 5. await store.zadd(providerKey, now, sessionId), 6. return; the mutex is
\* released and the session counts as admitted.
AdmitAdd(p) ==
    LET c == proc[p]
        z == zadd(ZGet(zsetData, AdmitKey), c.now, c.sessionId)
    IN  /\ c.pc = "add"
        /\ zsetData' = ZPut(zsetData, AdmitKey, z)
        /\ proc' = [proc EXCEPT ![p].pc = "done", ![p].after = z]
        /\ tracked' = tracked \cup {c.sessionId}
        /\ stMutex' = NoHolder
        /\ UNCHANGED <<clock, ticks, nTrack, mapData>>
        /\ AdmitFrame

\* SessionTracker.updateProvider for an admitted session.
AdmitUpdateProvider(s) ==
    LET r == updateProvider(zsetData, mapData, s, CountProviderId, clock)
    IN  /\ s \in tracked
        /\ nTrack < MaxAdmitCalls
        /\ status = "ready"
        /\ zsetData' = r.z
        /\ mapData' = r.m
        /\ nTrack' = nTrack + 1
        /\ UNCHANGED <<clock, ticks, tracked, proc, stMutex>>
        /\ AdmitFrame

\* SessionTracker.refreshSession for an admitted session, when its response completes.
AdmitRefreshSession(s) ==
    LET r == refreshSession(zsetData, mapData, s, CountKeyId, CountProviderId, clock)
    IN  /\ s \in tracked
        /\ nTrack < MaxAdmitCalls
        /\ status = "ready"
        /\ zsetData' = r.z
        /\ mapData' = r.m
        /\ nTrack' = nTrack + 1
        /\ UNCHANGED <<clock, ticks, tracked, proc, stMutex>>
        /\ AdmitFrame

ReentryNext ==
    \/ AdmitTick
    \/ \E p \in AdmitProcs :
         \/ ReentryCall(p)
         \/ AdmitAcquire(p)
         \/ AdmitTrim(p)
         \/ AdmitScore(p)
         \/ AdmitCard(p)
         \/ AdmitAdd(p)

ReentrySpec == ReentryInit /\ [][ReentryNext]_vars

AdmitNext ==
    \/ AdmitTick
    \/ \E p \in AdmitProcs :
         \/ AdmitCall(p)
         \/ AdmitAcquire(p)
         \/ AdmitTrim(p)
         \/ AdmitScore(p)
         \/ AdmitCard(p)
         \/ AdmitAdd(p)
    \/ \E s \in AdmitSessions :
         \/ AdmitUpdateProvider(s)
         \/ AdmitRefreshSession(s)

AdmitSpec == AdmitInit /\ [][AdmitNext]_vars

\* -------------------------------------------------------------------- C33
\* The members of z the trim of a call at now leaves in place.
LiveAt(z, now) == zremrangebyscore(z, NEG_INFINITY, now - SESSION_TTL)

IsLiveMember(z, sessionId, now) == ~zscore(LiveAt(z, now), sessionId).isNull

ReentryDone == {p \in AdmitProcs : proc[p].pc = "done"}

\* C33: a call for a session that is a live member of the provider set is
\* allowed whatever the limit, sets that member's score to the call's now,
\* returns tracked = false and leaves the number of live members as it was;
\* and every call that returned, rejected, re-entered or newly tracked,
\* returned as currentCount the cardinality the set has after the call.
C33_ReentryAllowed ==
    \A p \in ReentryDone :
      LET c == proc[p]
      IN  /\ c.res.count = zcard(c.after)
          /\ IsLiveMember(c.before, c.sessionId, c.now) =>
               /\ c.res.allowed
               /\ ~c.res.tracked
               /\ zscore(c.after, c.sessionId).isNull = FALSE
               /\ zscore(c.after, c.sessionId).score = c.now
               /\ zcard(c.after) = zcard(LiveAt(c.before, c.now))

\* A live member re-enters at a later instant while the set holds more
\* members than the limit the call brings.
C33_Witness ==
    \E p \in ReentryDone :
      LET c == proc[p]
      IN  /\ IsLiveMember(c.before, c.sessionId, c.now)
          /\ c.limit > 0
          /\ zcard(LiveAt(c.before, c.now)) > c.limit
          /\ zscore(c.before, c.sessionId).score < c.now
          /\ c.res.allowed

\* -------------------------------------------------------------------- C34
\* C34: with every admission made by the script under one limit L > 0, the
\* provider's session set never holds more than L members seen within the
\* last five minutes, whatever updateProvider and refreshSession calls are
\* made for admitted sessions.
C34_NeverExceedsLimit ==
    zcard(LiveAt(ZGet(zsetData, AdmitKey), clock)) <= cfg.limit

\* ================================================================== RpmSpec
\* Requests of one user call RateLimitService.checkUserRPM under one rpmLimit,
\* side by side: a call runs its first pipeline (trim, count), decides, and
\* runs its second pipeline (zadd, expire), one awaited store call at a time.
\* The clock moves by half minutes.
MaxRpmCalls == 3
MaxRpmTicks == 2
RpmProcs == {1, 2, 3}
RpmTickMs == RpmWindow \div 2
RpmKey == UserRpmKey(1)

RpmIdle == [pc |-> "idle", id |-> 0, now |-> 0, count |-> 0, res |-> NoResult]

RpmInit ==
    /\ clock = 0
    /\ ticks = 0
    /\ zsetData = << >>
    /\ tracked = {}
    /\ last = NoCall
    /\ lastGet = [k \in WindowKeys |-> NoGet]
    /\ nTrack = 0
    /\ wkey = NoKey
    /\ proc = [p \in RpmProcs |-> RpmIdle]
    /\ rwMutex = NoHolder
    /\ stMutex = NoHolder
    /\ NoEndpoints
    /\ status = "ready"
    /\ mapData = << >>
    /\ \E l \in 1..MaxLimit : cfg = [type |-> "rpm", rpmLimit |-> l]

RpmFrame == UNCHANGED <<last, lastGet, wkey, rwMutex, stMutex, status, cfg, epVars>>

RpmTick ==
    /\ ticks < MaxRpmTicks
    /\ clock' = clock + RpmTickMs
    /\ ticks' = ticks + 1
    /\ UNCHANGED <<zsetData, tracked, nTrack, proc, mapData>>
    /\ RpmFrame

\* checkUserRPM up to its first await: the limit guard, key and now.
RpmCall(p) ==
    /\ proc[p].pc \in {"idle", "done"}
    /\ \A q \in RpmProcs : q < p => proc[q].pc # "idle"
    /\ nTrack < MaxRpmCalls
    /\ cfg.rpmLimit > 0
    /\ nTrack' = nTrack + 1
    /\ proc' = [proc EXCEPT ![p] = [RpmIdle EXCEPT !.pc = "trim", !.id = nTrack + 1, !.now = clock]]
    /\ UNCHANGED <<clock, ticks, zsetData, tracked, mapData>>
    /\ RpmFrame

\* 1. pipeline.zremrangebyscore(key, -Infinity, oneMinuteAgo)
RpmTrim(p) ==
    LET c == proc[p]
    IN  /\ c.pc = "trim"
        /\ zsetData' = ZPut(zsetData, RpmKey,
                            zremrangebyscore(ZGet(zsetData, RpmKey), NEG_INFINITY, c.now - RpmWindow))
        /\ proc' = [proc EXCEPT ![p].pc = "card"]
        /\ UNCHANGED <<clock, ticks, tracked, nTrack, mapData>>
        /\ RpmFrame

\* 2. pipeline.zcard(key), and the decision on the count: a rejected call returns.
RpmCard(p) ==
    LET c == proc[p]
        count == zcard(ZGet(zsetData, RpmKey))
        rejected == count >= cfg.rpmLimit
        res == [allowed |-> ~rejected, count |-> IF rejected THEN count ELSE count + 1,
                tracked |-> ~rejected]
    IN  /\ c.pc = "card"
        /\ proc' = [proc EXCEPT ![p].pc = IF rejected THEN "done" ELSE "add",
                                ![p].count = count, ![p].res = res]
        /\ tracked' = IF rejected THEN tracked \cup {[id |-> c.id, now |-> c.now, allowed |-> FALSE]}
                      ELSE tracked
        /\ UNCHANGED <<clock, ticks, zsetData, nTrack, mapData>>
        /\ RpmFrame

\* 3. zadd(key, now, `${now}:${Math.random()}`): the member is the pair of
\* now and a number of the call's own.
RpmAdd(p) ==
    LET c == proc[p]
    IN  /\ c.pc = "add"
        /\ zsetData' = ZPut(zsetData, RpmKey, zadd(ZGet(zsetData, RpmKey), c.now, <<c.now, c.id>>))
        /\ proc' = [proc EXCEPT ![p].pc = "expire"]
        /\ UNCHANGED <<clock, ticks, tracked, nTrack, mapData>>
        /\ RpmFrame

\* expire(key, 120), then return { allowed: true, current: count + 1 }.
RpmExpire(p) ==
    LET c == proc[p]
    IN  /\ c.pc = "expire"
        /\ mapData' = expire(mapData, RpmKey, 120, clock)
        /\ proc' = [proc EXCEPT ![p].pc = "done"]
        /\ tracked' = tracked \cup {[id |-> c.id, now |-> c.now, allowed |-> TRUE]}
        /\ UNCHANGED <<clock, ticks, zsetData, nTrack>>
        /\ RpmFrame

RpmNext ==
    \/ RpmTick
    \/ \E p \in RpmProcs :
         \/ RpmCall(p)
         \/ RpmTrim(p)
         \/ RpmCard(p)
         \/ RpmAdd(p)
         \/ RpmExpire(p)

RpmSpec == RpmInit /\ [][RpmNext]_vars

\* -------------------------------------------------------------------- C35
RpmAllowed == {r \in tracked : r.allowed}

\* The allowed calls whose timestamps lie in the 60 seconds that end at t.
AllowedInWindow(t) == {r \in RpmAllowed : r.now > t - RpmWindow /\ r.now <= t}

RpmMembers == {ZGet(zsetData, RpmKey)[i].member : i \in 1..Len(ZGet(zsetData, RpmKey))}

\* C35: no 60-second window holds the timestamps of more than rpmLimit
\* calls that returned allowed = true, however the calls of the user
\* overlap; and no member of the user's window comes from a rejected call.
C35_AtMostLimitPerWindow ==
    /\ \A r \in RpmAllowed : Cardinality(AllowedInWindow(r.now)) <= cfg.rpmLimit
    /\ \A r \in tracked : ~r.allowed => <<r.now, r.id>> \notin RpmMembers

\* -------------------------------------------------------------------- C38
\* The status the claim pairs with a failure count.
PairConsistent(row) ==
    /\ row.healthStatus = "healthy" <=> row.consecutiveFailures = 0
    /\ row.healthStatus = "degraded" <=> row.consecutiveFailures \in {1, 2}
    /\ row.healthStatus = "unhealthy" <=> row.consecutiveFailures >= 3

\* C38: after a recordSuccess or recordFailure call on an endpoint with
\* id # 0, whatever currentFailures >= 0 the caller passed and whatever calls
\* came before, the stored pair is healthy with 0 failures, degraded with 1
\* or 2, or unhealthy with 3 or more, and the status is never unknown.
C38_StatusMatchesCount ==
    (last.op # "none" /\ last.id # 0) =>
        /\ PairConsistent(Stored(endpoints, last.id))
        /\ Stored(endpoints, last.id).healthStatus # "unknown"

\* A recordFailure passed a count that is not the stored one has left the
\* endpoint above the threshold.
C38_Witness ==
    /\ last.op = "recordFailure"
    /\ last.id = 1
    /\ last.currentFailures = MaxFailures
    /\ last.streak = 0
    /\ Stored(endpoints, 1).consecutiveFailures = MaxFailures + 1
    /\ Stored(endpoints, 1).healthStatus = "unhealthy"

\* ================================================================= FlowSpec
\* The request flow over the two endpoints of a multi-endpoint provider: a
\* request selects an endpoint (the query, then the filter and the
\* strategy), is served, and reports the outcome for the endpoint it was
\* given: recordSuccess(id), or recordFailure(id, consecutiveFailures) with
\* the count of the endpoint object selectEndpoint returned.  Requests
\* overlap; nobody edits the endpoint records.
MaxFlowRequests == 4
FlowProcs == {1, 2, 3}
FlowIds == {1, 2}
FlowStrategies == {"failover", "round_robin", "random"}

FlowIdle == [pc |-> "idle", all |-> <<>>, result |-> NullEndpoint]

NoOutcomes == [e \in FlowIds |-> [failures |-> 0, successes |-> 0]]

\* Endpoint 1 starts healthy, or degraded after two failures; initial keeps
\* the counts the behaviour started from.
FlowInit ==
    /\ clock = 0
    /\ ticks = 0
    /\ zsetData = << >>
    /\ tracked = NoOutcomes
    /\ last = NoCall
    /\ lastGet = [k \in WindowKeys |-> NoGet]
    /\ wkey = NoKey
    /\ nTrack = 0
    /\ proc = [p \in FlowProcs |-> FlowIdle]
    /\ rwMutex = NoHolder
    /\ stMutex = NoHolder
    /\ status = "ready"
    /\ mapData = << >>
    /\ \E strategy \in FlowStrategies, c \in {0, DEGRADED_THRESHOLD + 1} :
         /\ cfg = [type |-> "flow", provider |-> Provider(1, TRUE, strategy),
                   initial |-> [e \in FlowIds |-> IF e = 1 THEN c ELSE 0]]
         /\ endpoints =
              <<[Endpoint(1, 1, 1, 1) EXCEPT !.healthStatus = healthStatusFor(c),
                                             !.consecutiveFailures = c],
                [Endpoint(2, 1, 2, 1) EXCEPT !.healthStatus = "healthy"]>>
    /\ roundRobinIndex = << >>
    /\ writes = 0

FlowFrame ==
    UNCHANGED <<clock, ticks, zsetData, last, lastGet, wkey, rwMutex, stMutex, status,
                mapData, cfg>>

\* selectEndpoint(provider) up to its await.
FlowCall(p) ==
    /\ proc[p].pc \in {"idle", "done"}
    /\ \A q \in FlowProcs : q < p => proc[q].pc # "idle"
    /\ nTrack < MaxFlowRequests
    /\ nTrack' = nTrack + 1
    /\ proc' = [proc EXCEPT ![p] = [FlowIdle EXCEPT !.pc = "query"]]
    /\ UNCHANGED <<tracked, endpoints, roundRobinIndex, writes>>
    /\ FlowFrame

\* await findEndpointsByProviderId(provider.id): the rows as they are now.
FlowQuery(p) ==
    /\ proc[p].pc = "query"
    /\ proc' = [proc EXCEPT ![p].pc = "pick",
                            ![p].all = findEndpointsByProviderId(endpoints, cfg.provider.id)]
    /\ UNCHANGED <<tracked, nTrack, endpoints, roundRobinIndex, writes>>
    /\ FlowFrame

\* The filter, the strategy and the return: the request holds the endpoint
\* object built from the row it read, or null and ends.
FlowPick(p) ==
    LET c == proc[p]
        strategy == cfg.provider.endpointSelectionStrategy
    IN  /\ c.pc = "pick"
        /\ \E d \in IF Drawn(strategy) THEN 0..(RandomScale - 1) ELSE {0} :
             LET r == selectEndpointFrom(roundRobinIndex, cfg.provider, c.all, {}, d)
             IN  /\ proc' = [proc EXCEPT ![p].pc = IF r.result.isNull THEN "done" ELSE "selected",
                                         ![p].result = r.result]
                 /\ roundRobinIndex' = r.rr
        /\ UNCHANGED <<tracked, nTrack, endpoints, writes>>
        /\ FlowFrame

\* The request failed: recordFailure(endpoint.id, endpoint.consecutiveFailures).
FlowFail(p) ==
    LET c == proc[p]
        r == recordFailure(endpoints, c.result.id, c.result.consecutiveFailures)
    IN  /\ c.pc = "selected"
        /\ endpoints' = r.table
        /\ writes' = writes + r.statements
        /\ tracked' = [tracked EXCEPT ![c.result.id].failures = @ + 1]
        /\ proc' = [proc EXCEPT ![p].pc = "done"]
        /\ UNCHANGED <<nTrack, roundRobinIndex>>
        /\ FlowFrame

\* The request succeeded: recordSuccess(endpoint.id).
FlowSucceed(p) ==
    LET c == proc[p]
        r == recordSuccess(endpoints, c.result.id)
    IN  /\ c.pc = "selected"
        /\ endpoints' = r.table
        /\ writes' = writes + r.statements
        /\ tracked' = [tracked EXCEPT ![c.result.id].successes = @ + 1]
        /\ proc' = [proc EXCEPT ![p].pc = "done"]
        /\ UNCHANGED <<nTrack, roundRobinIndex>>
        /\ FlowFrame

FlowNext ==
    \E p \in FlowProcs :
        \/ FlowCall(p)
        \/ FlowQuery(p)
        \/ FlowPick(p)
        \/ FlowFail(p)
        \/ FlowSucceed(p)

FlowSpec == FlowInit /\ [][FlowNext]_vars

\* -------------------------------------------------------------------- C37
\* The requests that hold endpoint e and have not reported yet.
Holding(e) == {p \in FlowProcs : proc[p].pc = "selected" /\ proc[p].result.id = e}

\* C37: once the k >= 1 requests that selected an endpoint have all failed
\* and reported, none having succeeded, the stored consecutiveFailures is k
\* more than it was and the stored status is the one the thresholds give
\* for that count, however the requests overlapped.
C37_FailuresAddUp ==
    \A e \in FlowIds :
        (Holding(e) = {} /\ tracked[e].successes = 0 /\ tracked[e].failures >= 1) =>
            /\ Stored(endpoints, e).consecutiveFailures = cfg.initial[e] + tracked[e].failures
            /\ Stored(endpoints, e).healthStatus =
                   healthStatusFor(cfg.initial[e] + tracked[e].failures)

\* -------------------------------------------------------------------- C39
\* The requests that may still be given endpoint e: they read its row
\* while it passed the filter and have not chosen yet.
MaySelect(e) ==
    {p \in FlowProcs :
        /\ proc[p].pc = "pick"
        /\ \E i \in 1..Len(proc[p].all) :
              proc[p].all[i].id = e /\ Available(proc[p].all[i], {})}

IsUnhealthy(e) == Stored(endpoints, e).isEnabled /\ Stored(endpoints, e).healthStatus = "unhealthy"

\* An enabled unhealthy endpoint that no request holds or may still be given.
Trapped(e) == IsUnhealthy(e) /\ Holding(e) = {} /\ MaySelect(e) = {}

\* No step of the flow leads out of Trapped: selectEndpoint does not return
\* the endpoint, so no request can report for it.
FlowTrappedStays == [][\A e \in FlowIds : Trapped(e) => Trapped(e)']_vars

\* C39: an enabled unhealthy endpoint can always become healthy again by
\* steps of the request flow: in every state some request holds it, or may
\* still be given it, and can record a success for it.
C39_UnhealthyCanRecover == \A e \in FlowIds : ~Trapped(e)

\* =============================================================== ExistsSpec
\* The store's sorted-set commands and exists on the same keys: a rolling
\* cost window and a provider's session set, written with zadd and emptied
\* with zrem or zremrangebyscore, beside a string key written with setex.
MaxExistsWrites == 3
MaxExistsTicks == 2
ExistsMembers == {1, 2}
ExistsTickMs == MsPerSecond
SortedSetKeys == {Key5hRolling("key", 1), ProviderSessionsKey(1)}
StringKeys == {SessionInfoKey(1)}

\* InMemoryZSet.zrem(key, member): an emptied set is dropped from the Map.
zrem(z, member) == SelectSeq(z, LAMBDA e : e.member # member)

NoExists == [op |-> "none", key |-> NoKey, now |-> 0, z |-> <<>>, result |-> 0]

ExistsInit ==
    /\ clock = 0
    /\ ticks = 0
    /\ zsetData = << >>
    /\ tracked = <<>>
    /\ last = NoExists
    /\ lastGet = [k \in WindowKeys |-> NoGet]
    /\ wkey = NoKey
    /\ nTrack = 0
    /\ proc = << >>
    /\ rwMutex = NoHolder
    /\ stMutex = NoHolder
    /\ NoEndpoints
    /\ status = "ready"
    /\ mapData = << >>
    /\ cfg = NoConfig

ExistsFrame == UNCHANGED <<tracked, lastGet, wkey, proc, rwMutex, stMutex, status, cfg, epVars>>

ExistsTick ==
    /\ ticks < MaxExistsTicks
    /\ clock' = clock + ExistsTickMs
    /\ ticks' = ticks + 1
    /\ UNCHANGED <<zsetData, mapData, last, nTrack>>
    /\ ExistsFrame

\* store.zadd(key, now, member)
ExistsZadd ==
    \E key \in SortedSetKeys, member \in ExistsMembers :
        /\ nTrack < MaxExistsWrites
        /\ nTrack' = nTrack + 1
        /\ zsetData' = ZPut(zsetData, key, zadd(ZGet(zsetData, key), clock, member))
        /\ UNCHANGED <<clock, ticks, mapData, last>>
        /\ ExistsFrame

\* store.zrem(key, member)
ExistsZrem ==
    \E key \in SortedSetKeys, member \in ExistsMembers :
        /\ nTrack < MaxExistsWrites
        /\ ZGet(zsetData, key) # <<>>
        /\ nTrack' = nTrack + 1
        /\ zsetData' = ZPut(zsetData, key, zrem(ZGet(zsetData, key), member))
        /\ UNCHANGED <<clock, ticks, mapData, last>>
        /\ ExistsFrame

\* store.zremrangebyscore(key, -Infinity, now - 1000)
ExistsTrim ==
    \E key \in SortedSetKeys :
        /\ nTrack < MaxExistsWrites
        /\ ZGet(zsetData, key) # <<>>
        /\ nTrack' = nTrack + 1
        /\ zsetData' = ZPut(zsetData, key,
                            zremrangebyscore(ZGet(zsetData, key), NEG_INFINITY,
                                             clock - ExistsTickMs))
        /\ UNCHANGED <<clock, ticks, mapData, last>>
        /\ ExistsFrame

\* store.setex(key, 1, value) on a string key
ExistsSetex ==
    \E key \in StringKeys :
        /\ nTrack < MaxExistsWrites
        /\ nTrack' = nTrack + 1
        /\ mapData' = setex(mapData, key, 1, 1, clock)
        /\ UNCHANGED <<clock, ticks, zsetData, last>>
        /\ ExistsFrame

\* store.exists(key): InMemoryStore.exists hands the key to the string map.
ExistsCall ==
    \E key \in SortedSetKeys \cup StringKeys :
        /\ last' = [op |-> "exists", key |-> key, now |-> clock, z |-> ZGet(zsetData, key),
                    result |-> exists(mapData, key, clock)]
        /\ UNCHANGED <<clock, ticks, zsetData, mapData, nTrack>>
        /\ ExistsFrame

ExistsNext ==
    \/ ExistsTick
    \/ ExistsZadd
    \/ ExistsZrem
    \/ ExistsTrim
    \/ ExistsSetex
    \/ ExistsCall

ExistsSpec == ExistsInit /\ [][ExistsNext]_vars

\* -------------------------------------------------------------------- C40
\* C40: exists on a sorted-set key returns 1 while the key holds a set with
\* at least one member, and 0 once the last member has been removed.
C40_ExistsSeesSortedSet ==
    (last.op = "exists" /\ last.key \in SortedSetKeys) =>
        last.result = (IF last.z # <<>> THEN 1 ELSE 0)

====
